---------------------------- MODULE Spec2Model ----------------------------
(***************************************************************************)
(* The FLARM binary protocol of XCSoar: the byte-stuffing codec            *)
(* (SendEscaped / ReceiveEscaped), the frame header and the exchange       *)
(* engine (WaitForACKOrNACK, BinaryPing, BinaryReset) over an abstract      *)
(* Port with a clock.                                                      *)
(***************************************************************************)
EXTENDS Integers, Sequences, FiniteSets, TLC

(* ------------------------------ bounds --------------------------------- *)

\* longest buffer handed to SendEscaped / longest raw stream fed to
\* ReceiveEscaped in the codec specification
MaxLen == 3
\* largest timeout (in clock ticks) a caller passes
MaxTimeout == 2

\* the timeouts callers pass: none at all, or the largest
Timeouts == {0, MaxTimeout}

(* ------------------------ protocol constants --------------------------- *)

START_FRAME == 115
ESCAPE == 120
ESCAPE_ESCAPE == 85
ESCAPE_START == 49

\* the bytes the codec specification draws its buffers and raw streams from:
\* the four reserved values and one harmless byte
CodecBytes == {START_FRAME, ESCAPE, ESCAPE_START, ESCAPE_ESCAPE, 0}

(* ------------------------------ state ---------------------------------- *)

VARIABLES
  now,              \* std::chrono::steady_clock::now(), in ticks
  tx,               \* every byte written to the port so far, in order
  rx,               \* the inbound bytes the port has not handed out yet
  sequence_number,  \* FlarmDevice::sequence_number
  pc,               \* position of the (single) thread of control
  op,               \* the operation the caller invoked
  arg,              \* the arguments of that call and the clock at its start
  snd,              \* locals of SendEscaped: buffer, p, timeout (deadline), ret
  rcv,              \* locals of ReceiveEscaped: dest (decoded so far), length,
                    \* timeout (deadline), ret, ok
  wt,               \* locals of WaitForACKOrNACK
  ping,             \* locals of BinaryPing / BinaryReset
  result,           \* what the invoked operation returned or threw
  calls,            \* for each blocking port call of the last step: by how
                    \* much the timeout it was given exceeds the time left
                    \* of the invoked operation
  built,            \* one entry per frame header built on this connection:
                    \* the counter before the call, the header, the payload
  flip,             \* the bit the line has flipped in the frame in flight
  un,               \* ReceiveSomeUnescape run step by step: dest (the bytes
                    \* of the span that were read, unescaped in place), n
                    \* (the span's size), timeout (deadline), nbytes, src,
                    \* p (both counted from 1), st (where it stands)
  dp,               \* a DumpPort: until, the number n of calls made on it,
                    \* and of the last of them: the call, those it made on
                    \* the wrapped port, what was logged, what the wrapped
                    \* port gave and what the caller got back
  wp                \* ReadWayPointFile: the file, the build, the terrain
                    \* settings, way_points with its size at the call,
                    \* nLineNumber, where the function stands (st, why),
                    \* and what became of each line read

vars == <<now, tx, rx, sequence_number, pc, op, arg, snd, rcv, wt, ping,
          result, calls, built, flip, un, dp, wp>>

(* ----------------------------- helpers --------------------------------- *)

Min(a, b) == IF a <= b THEN a ELSE b
Max(a, b) == IF a >= b THEN a ELSE b

RECURSIVE SeqsUpTo(_, _)
\* all sequences over S of length 0..n
SeqsUpTo(S, n) ==
  IF n = 0 THEN {<<>>}
  ELSE LET shorter == SeqsUpTo(S, n - 1)
       IN shorter \cup {Append(s, x) : s \in {t \in shorter : Len(t) = n - 1}, x \in S}

\* std::find(begin, end, v) on buf: positions are 1-based, end is one past
Find(buf, begin, end, v) ==
  IF \E i \in begin..(end - 1) : buf[i] = v
  THEN CHOOSE i \in begin..(end - 1) :
         buf[i] = v /\ \A j \in begin..(i - 1) : buf[j] # v
  ELSE end

(* ---------------------------- TimeoutClock ----------------------------- *)

\* TimeoutClock(max_duration) constructed at time t: the absolute deadline
TimeoutClock(max_duration, t) == t + max_duration
\* expired only once the deadline lies behind
HasExpiredStrict(deadline, t) == t > deadline

HasExpired(deadline, t) == t >= deadline
GetRemainingOrZero(deadline, t) == Max(deadline - t, 0)

(* -------------------------------- Port --------------------------------- *)

\* how a port call ends: normally, DeviceTimeout thrown, or another
\* exception thrown (I/O error, cancellation)
Ret(v) == [kind |-> "return", val |-> v, exc |-> "none"]
Throw(e) == [kind |-> "throw", val |-> 0, exc |-> e]
NoResult == [kind |-> "none", val |-> 0, exc |-> "none"]

\* Port::FullWrite(src, env, timeout) called at time t with tx = w: all of
\* src is written before the timeout, or DeviceTimeout after a partial write
FullWrite(w, t, src, timeout) ==
  {[out |-> "ok", tx |-> w \o src, now |-> t + dt] : dt \in 0..timeout}
  \cup {[out |-> "DeviceTimeout", tx |-> w \o SubSeq(src, 1, k), now |-> t + timeout] :
          k \in 0..(Len(src) - 1)}
  \cup {[out |-> "PortError", tx |-> w, now |-> t]}

\* Port::Write(std::byte): a blocking write of one byte, no timeout
Write(w, t, ch) ==
  {[out |-> "ok", tx |-> Append(w, ch), now |-> t],
   [out |-> "PortError", tx |-> w, now |-> t]}

\* Port::WaitAndRead(dest, env, timeout) with |dest| = n, called at time t
\* with inbound bytes r: blocks until at least one byte is there or the
\* deadline passes; hands out the 1..n bytes that are there
WaitAndRead(r, t, n, deadline) ==
  {[out |-> "ok", data |-> SubSeq(r, 1, k), rx |-> SubSeq(r, k + 1, Len(r)), now |-> t + dt] :
     k \in 1..Min(n, Len(r)), dt \in 0..GetRemainingOrZero(deadline, t)}
  \cup {[out |-> "DeviceTimeout", data |-> <<>>, rx |-> r, now |-> Max(t, deadline)]}
  \cup {[out |-> "PortError", data |-> <<>>, rx |-> r, now |-> t]}

\* Port::WaitRead(env, timeout) followed by Port::ReadByte()
WaitReadByte(r, t, timeout) ==
  {[out |-> "ok", data |-> SubSeq(r, 1, 1), rx |-> SubSeq(r, 2, Len(r)), now |-> t + dt] :
     dt \in IF Len(r) > 0 THEN 0..timeout ELSE {}}
  \cup {[out |-> "DeviceTimeout", data |-> <<>>, rx |-> r, now |-> t + timeout]}
  \cup {[out |-> "PortError", data |-> <<>>, rx |-> r, now |-> t]}

\* Port::WaitForByte(token, env, timeout): consumes and discards bytes until
\* token is seen or the deadline passes
WaitForByte(r, t, token, timeout) ==
  LET hit == Find(r, 1, Len(r) + 1, token)
  IN {[out |-> "ok", data |-> <<token>>, rx |-> SubSeq(r, hit + 1, Len(r)), now |-> t + dt] :
        dt \in IF hit <= Len(r) THEN 0..timeout ELSE {}}
     \cup {[out |-> "DeviceTimeout", data |-> <<>>, rx |-> SubSeq(r, k + 1, Len(r)), now |-> t + timeout] :
             k \in 0..(hit - 1)}
     \cup {[out |-> "PortError", data |-> <<>>, rx |-> r, now |-> t]}

\* a blocking call made at time t with this timeout: the excess of the
\* timeout over what is left of the invoked operation's own timeout
Call(timeout, t) == timeout - GetRemainingOrZero(arg.start + arg.timeout, t)

(* ------------------------ exceptions and returns ----------------------- *)

\* How the invoked operation o ends when exception e leaves its frames:
\* BinaryPing is a function-try-block that turns DeviceTimeout into false;
\* no other function of the file catches anything.
\* no handler anywhere: every exception leaves the invoked operation
UnwindRethrow(o, e) == Throw(e)

\* a handler that catches every exception
UnwindCatchAll(o, e) == IF o = "BinaryPing" THEN Ret(0) ELSE Throw(e)

Unwind(o, e) ==
  IF o = "BinaryPing" /\ e = "DeviceTimeout" THEN Ret(0) ELSE Throw(e)

NoSnd == [buffer |-> <<>>, p |-> 1, timeout |-> 0, ret |-> "done"]
NoRcv == [dest |-> <<>>, length |-> 0, timeout |-> 0, ret |-> "done", ok |-> FALSE]
NoArg == [buffer |-> <<>>, length |-> 0, timeout |-> 0, start |-> 0, seq |-> 0,
          stream |-> <<>>]
NoHeader == [length |-> 0, version |-> 0, sequence_number |-> 0, type |-> 0, crc |-> 0]
NoWt == [seq |-> 0, timeout |-> 0, header |-> NoHeader, length |-> 0, data |-> <<>>,
         capacity |-> 0, ret |-> "done"]
NoPing == [timeout |-> 0, header |-> NoHeader]
NoFlip == [bit |-> 0, frame |-> <<>>, tail |-> <<>>]
NoUn == [dest |-> <<>>, n |-> 0, timeout |-> 0, nbytes |-> 0, src |-> 1, p |-> 1,
         st |-> "none"]
NoCall == [method |-> "none", arg |-> <<>>]
NoDump == [kind |-> "none", val |-> 0, exc |-> "none", data |-> <<>>]
NoDp == [until |-> 0, enabled |-> FALSE, log |-> <<>>, inner |-> <<>>, call |-> NoCall,
         ret |-> NoDump, got |-> NoDump, before |-> 0, at |-> 0, n |-> 0]
NoWp == [file |-> <<>>, HAVEEXCEPTIONS |-> FALSE, isTerrainLoaded |-> FALSE,
         WaypointOutOfTerrainRangeDontAskAgain |-> 0, way_points |-> <<>>,
         before |-> 0, nLineNumber |-> 0, st |-> "none", why |-> "none",
         verdicts |-> <<>>]

(* ----------------------------- SendEscaped ----------------------------- *)

\* FindSpecial that looks for START_FRAME only
FindSpecialStartOnly(buf, begin, end) == Find(buf, begin, end, START_FRAME)

FindSpecial(buf, begin, end) ==
  LET start == Find(buf, begin, end, START_FRAME)
      escape == Find(buf, begin, end, ESCAPE)
  IN Min(start, escape)

\* the escape branches with the second bytes swapped
EscapedSwapped(ch) ==
  IF ch = START_FRAME THEN <<ESCAPE, ESCAPE_ESCAPE>>
  ELSE IF ch = ESCAPE THEN <<ESCAPE, ESCAPE_START>>
  ELSE <<ch>>

\* the special byte sent as it is
EscapedNot(ch) == <<ch>>

\* the bytes SendEscaped writes, one Port::Write each, for the byte at *p
Escaped(ch) ==
  IF ch = START_FRAME THEN <<ESCAPE, ESCAPE_START>>
  ELSE IF ch = ESCAPE THEN <<ESCAPE, ESCAPE_ESCAPE>>
  ELSE <<ch>>

RECURSIVE WriteEach(_, _, _)
\* consecutive port.Write(byte) calls; the first that throws ends them
WriteEach(w, t, bytes) ==
  IF bytes = <<>> THEN {[out |-> "ok", tx |-> w, now |-> t]}
  ELSE UNION {IF r.out = "ok" THEN WriteEach(r.tx, r.now, Tail(bytes)) ELSE {r} :
                r \in Write(w, t, Head(bytes))}

\* One iteration of the while (true) loop of SendEscaped, entered at time t
\* with tx = w: every way it can end.  brk: the loop was left by break.
SendEscapedLoop(w, t, buffer, p, timeout) ==
  LET end == Len(buffer) + 1
      special == FindSpecial(buffer, p, end)
      remaining == GetRemainingOrZero(timeout, t)
      bulk == IF special > p
              THEN FullWrite(w, t, SubSeq(buffer, p, special - 1), remaining)
              ELSE {[out |-> "ok", tx |-> w, now |-> t]}
      made == IF special > p THEN <<Call(remaining, t)>> ELSE <<>>
  IN UNION {
       IF b.out # "ok"
       THEN {[out |-> b.out, tx |-> b.tx, now |-> b.now, p |-> p, brk |-> FALSE, calls |-> made]}
       ELSE IF special = end
       THEN {[out |-> "ok", tx |-> b.tx, now |-> b.now, p |-> special, brk |-> TRUE, calls |-> made]}
       ELSE {[out |-> e.out, tx |-> e.tx, now |-> e.now, p |-> special + 1, brk |-> FALSE, calls |-> made] :
               e \in WriteEach(b.tx, b.now, Escaped(buffer[special]))}
       : b \in bulk}

\* SendEscaped whose cursor starts behind the first byte
EnterSendEscapedSkipFirst(buffer, timeout, t, ret) ==
  [buffer |-> buffer, p |-> 2, timeout |-> TimeoutClock(timeout, t), ret |-> ret]

\* FLARM::SendEscaped(port, buffer, length, env, _timeout), entered at time t
EnterSendEscaped(buffer, timeout, t, ret) ==
  [buffer |-> buffer, p |-> 1, timeout |-> TimeoutClock(timeout, t), ret |-> ret]

SendEscaped ==
  /\ pc = "SendEscaped"
  /\ \E s \in SendEscapedLoop(tx, now, snd.buffer, snd.p, snd.timeout) :
       /\ tx' = s.tx
       /\ now' = s.now
       /\ calls' = s.calls
       /\ IF s.out # "ok"
          THEN /\ pc' = "done"
               /\ result' = Unwind(op, s.out)
               /\ snd' = snd
          ELSE IF s.brk
          THEN /\ pc' = snd.ret
               /\ result' = IF snd.ret = "done" THEN Ret(0) ELSE result
               /\ snd' = snd
          ELSE /\ pc' = pc
               /\ result' = result
               /\ snd' = [snd EXCEPT !.p = s.p]
  /\ UNCHANGED <<dp, wp, flip, un, built, rx, sequence_number, op, arg, rcv, wt, ping>>

(* ---------------------------- ReceiveEscaped --------------------------- *)

RECURSIVE UnescapeLenient(_, _, _)
\* the for loop with an unknown escape taken as the byte after ESCAPE
UnescapeLenient(raw, src, out) ==
  IF src > Len(raw) THEN [p |-> out, st |-> "end"]
  ELSE IF raw[src] = ESCAPE
  THEN IF src + 1 > Len(raw) THEN [p |-> out, st |-> "more"]
       ELSE IF raw[src + 1] = ESCAPE_START
       THEN UnescapeLenient(raw, src + 2, Append(out, START_FRAME))
       ELSE IF raw[src + 1] = ESCAPE_ESCAPE
       THEN UnescapeLenient(raw, src + 2, Append(out, ESCAPE))
       ELSE UnescapeLenient(raw, src + 2, Append(out, raw[src + 1]))
  ELSE UnescapeLenient(raw, src + 1, Append(out, raw[src]))

RECURSIVE Unescape(_, _, _)
\* The for loop of ReceiveSomeUnescape over the nbytes raw bytes just read,
\* from read cursor src with out already written: out grows by one per
\* harmless byte or complete escape pair.  st is "end" when src reached end,
\* "null" at an unknown escape, "more" when ESCAPE is the last raw byte.
Unescape(raw, src, out) ==
  IF src > Len(raw) THEN [p |-> out, st |-> "end"]
  ELSE IF raw[src] = ESCAPE
  THEN IF src + 1 > Len(raw) THEN [p |-> out, st |-> "more"]
       ELSE IF raw[src + 1] = ESCAPE_START
       THEN Unescape(raw, src + 2, Append(out, START_FRAME))
       ELSE IF raw[src + 1] = ESCAPE_ESCAPE
       THEN Unescape(raw, src + 2, Append(out, ESCAPE))
       ELSE [p |-> out, st |-> "null"]
  ELSE Unescape(raw, src + 1, Append(out, raw[src]))

\* ReceiveSomeUnescape without the read of one more byte: an ESCAPE that is
\* the last raw byte is handed out as a data byte
ReceiveSomeUnescapeTailAsData(r, t, n, timeout) ==
  {LET first == <<Call(GetRemainingOrZero(timeout, t), t)>>
   IN IF a.out # "ok"
      THEN [out |-> a.out, null |-> FALSE, p |-> <<>>, rx |-> a.rx, now |-> a.now,
            calls |-> first]
      ELSE LET u == Unescape(a.data, 1, <<>>)
           IN [out |-> "ok", null |-> u.st = "null",
               p |-> IF u.st = "more" THEN Append(u.p, ESCAPE) ELSE u.p,
               rx |-> a.rx, now |-> a.now, calls |-> first]
   : a \in WaitAndRead(r, t, n, timeout)}

\* ReceiveSomeUnescape without the read of one more byte: an ESCAPE that is
\* the last raw byte is dropped
ReceiveSomeUnescapeDropTail(r, t, n, timeout) ==
  {LET first == <<Call(GetRemainingOrZero(timeout, t), t)>>
   IN IF a.out # "ok"
      THEN [out |-> a.out, null |-> FALSE, p |-> <<>>, rx |-> a.rx, now |-> a.now,
            calls |-> first]
      ELSE LET u == Unescape(a.data, 1, <<>>)
           IN [out |-> "ok", null |-> u.st = "null", p |-> u.p,
               rx |-> a.rx, now |-> a.now, calls |-> first]
   : a \in WaitAndRead(r, t, n, timeout)}

\* ReceiveSomeUnescape that stops at a raw START_FRAME: the bytes from it on
\* go back to the port and the pass fails, so that the caller synchronises
\* on it
ReceiveSomeUnescapeResync(r, t, n, timeout) ==
  {LET first == <<Call(GetRemainingOrZero(timeout, t), t)>>
   IN IF a.out # "ok"
      THEN [out |-> a.out, null |-> FALSE, p |-> <<>>, rx |-> a.rx, now |-> a.now,
            calls |-> first]
      ELSE LET hit == Find(a.data, 1, Len(a.data) + 1, START_FRAME)
               u == Unescape(SubSeq(a.data, 1, hit - 1), 1, <<>>)
           IN [out |-> "ok", null |-> hit <= Len(a.data) \/ u.st # "end", p |-> u.p,
               rx |-> SubSeq(a.data, hit, Len(a.data)) \o a.rx,
               now |-> a.now, calls |-> first]
   : a \in WaitAndRead(r, t, n, timeout)}

\* ReceiveSomeUnescape(port, dest, env, timeout) with |dest| = n, entered at
\* time t with inbound bytes r: every way it can end.  null: it returned
\* nullptr; p: the bytes it left in dest.
ReceiveSomeUnescape(r, t, n, timeout) ==
  UNION {
    LET first == <<Call(GetRemainingOrZero(timeout, t), t)>>
    IN IF a.out # "ok"
       THEN {[out |-> a.out, null |-> FALSE, p |-> <<>>, rx |-> a.rx, now |-> a.now,
              calls |-> first]}
       ELSE LET u == Unescape(a.data, 1, <<>>)
                remaining == GetRemainingOrZero(timeout, a.now)
            IN IF u.st = "more"
               THEN {[out |-> b.out,
                      null |-> b.out = "ok" /\ b.data[1] \notin {ESCAPE_START, ESCAPE_ESCAPE},
                      p |-> IF b.out # "ok" THEN u.p
                            ELSE IF b.data[1] = ESCAPE_START THEN Append(u.p, START_FRAME)
                            ELSE IF b.data[1] = ESCAPE_ESCAPE THEN Append(u.p, ESCAPE)
                            ELSE u.p,
                      rx |-> b.rx, now |-> b.now,
                      calls |-> Append(first, Call(remaining, a.now))] :
                       b \in WaitReadByte(a.rx, a.now, remaining)}
               ELSE {[out |-> "ok", null |-> u.st = "null", p |-> u.p, rx |-> a.rx,
                      now |-> a.now, calls |-> first]}
    : a \in WaitAndRead(r, t, n, timeout)}

\* FLARM::ReceiveEscaped(port, buffer, length, env, _timeout), entered at t
EnterReceiveEscaped(length, timeout, t, ret) ==
  [dest |-> <<>>, length |-> length, timeout |-> TimeoutClock(timeout, t),
   ret |-> ret, ok |-> FALSE]

\* ReceiveEscaped with every pass decoding into the whole buffer again
ReceiveEscapedFromStart ==
  /\ pc = "ReceiveEscaped"
  /\ \E s \in ReceiveSomeUnescape(rx, now, rcv.length, rcv.timeout) :
       LET dest == s.p
       IN /\ rx' = s.rx
          /\ now' = s.now
          /\ calls' = s.calls
          /\ IF s.out # "ok"
             THEN /\ pc' = "done"
                  /\ result' = Unwind(op, s.out)
                  /\ rcv' = [rcv EXCEPT !.dest = dest]
             ELSE IF s.null
             THEN /\ pc' = rcv.ret
                  /\ result' = IF rcv.ret = "done" THEN Ret(0) ELSE result
                  /\ rcv' = [rcv EXCEPT !.dest = dest, !.ok = FALSE]
             ELSE IF Len(dest) < rcv.length
             THEN /\ pc' = pc
                  /\ result' = result
                  /\ rcv' = [rcv EXCEPT !.dest = dest]
             ELSE /\ pc' = rcv.ret
                  /\ result' = IF rcv.ret = "done" THEN Ret(1) ELSE result
                  /\ rcv' = [rcv EXCEPT !.dest = dest, !.ok = TRUE]
  /\ UNCHANGED <<dp, wp, flip, un, built, tx, sequence_number, op, arg, snd, wt, ping>>

\* ReceiveEscaped with every pass asking for the whole length again
ReceiveEscapedWholeLength ==
  /\ pc = "ReceiveEscaped"
  /\ \E s \in ReceiveSomeUnescape(rx, now, rcv.length, rcv.timeout) :
       LET dest == rcv.dest \o s.p
       IN /\ rx' = s.rx
          /\ now' = s.now
          /\ calls' = s.calls
          /\ IF s.out # "ok"
             THEN /\ pc' = "done"
                  /\ result' = Unwind(op, s.out)
                  /\ rcv' = [rcv EXCEPT !.dest = dest]
             ELSE IF s.null
             THEN /\ pc' = rcv.ret
                  /\ result' = IF rcv.ret = "done" THEN Ret(0) ELSE result
                  /\ rcv' = [rcv EXCEPT !.dest = dest, !.ok = FALSE]
             ELSE IF Len(dest) < rcv.length
             THEN /\ pc' = pc
                  /\ result' = result
                  /\ rcv' = [rcv EXCEPT !.dest = dest]
             ELSE /\ pc' = rcv.ret
                  /\ result' = IF rcv.ret = "done" THEN Ret(1) ELSE result
                  /\ rcv' = [rcv EXCEPT !.dest = dest, !.ok = TRUE]
  /\ UNCHANGED <<dp, wp, flip, un, built, tx, sequence_number, op, arg, snd, wt, ping>>

\* one pass of the while (p < end) loop of ReceiveEscaped
ReceiveEscaped ==
  /\ pc = "ReceiveEscaped"
  /\ \E s \in ReceiveSomeUnescape(rx, now, rcv.length - Len(rcv.dest), rcv.timeout) :
       LET dest == rcv.dest \o s.p
       IN /\ rx' = s.rx
          /\ now' = s.now
          /\ calls' = s.calls
          /\ IF s.out # "ok"
             THEN /\ pc' = "done"
                  /\ result' = Unwind(op, s.out)
                  /\ rcv' = [rcv EXCEPT !.dest = dest]
             ELSE IF s.null
             THEN /\ pc' = rcv.ret
                  /\ result' = IF rcv.ret = "done" THEN Ret(0) ELSE result
                  /\ rcv' = [rcv EXCEPT !.dest = dest, !.ok = FALSE]
             ELSE IF Len(dest) < rcv.length
             THEN /\ pc' = pc
                  /\ result' = result
                  /\ rcv' = [rcv EXCEPT !.dest = dest]
             ELSE /\ pc' = rcv.ret
                  /\ result' = IF rcv.ret = "done" THEN Ret(1) ELSE result
                  /\ rcv' = [rcv EXCEPT !.dest = dest, !.ok = TRUE]
  /\ UNCHANGED <<dp, wp, flip, un, built, tx, sequence_number, op, arg, snd, wt, ping>>

(* ------------------- the codec called on its own ----------------------- *)

Buffers == SeqsUpTo(CodecBytes, MaxLen) \ {<<>>}

\* a caller sends buffer b (assert(length > 0)) on a port with nothing read
CallSendEscaped ==
  /\ pc = "idle"
  /\ rx = <<>>
  /\ \E b \in Buffers, timeout \in Timeouts :
       /\ op' = "SendEscaped"
       /\ arg' = [NoArg EXCEPT !.buffer = b, !.length = Len(b), !.timeout = timeout,
                               !.start = now]
       /\ snd' = EnterSendEscaped(b, timeout, now, "done")
  /\ pc' = "SendEscaped"
  /\ calls' = <<>>
  /\ UNCHANGED <<dp, wp, flip, un, built, now, tx, rx, sequence_number, rcv, wt, ping, result>>

\* a caller decodes `length` bytes (assert(length > 0)) from the inbound
\* bytes: those the port holds, or, after a completed SendEscaped, the bytes
\* that were written (the peer's view of the wire)
CallReceiveEscaped ==
  /\ \/ /\ pc = "idle"
        /\ rx # <<>>
        /\ rx' = rx
     \/ /\ pc = "done"
        /\ op = "SendEscaped"
        /\ result = Ret(0)
        /\ rx' = tx
  /\ \E length \in 1..MaxLen, timeout \in Timeouts :
       /\ arg' = [arg EXCEPT !.length = length, !.timeout = timeout, !.start = now,
                             !.stream = rx']
       /\ rcv' = EnterReceiveEscaped(length, timeout, now, "done")
  /\ op' = "ReceiveEscaped"
  /\ pc' = "ReceiveEscaped"
  /\ result' = NoResult
  /\ calls' = <<>>
  /\ UNCHANGED <<dp, wp, flip, un, built, now, tx, sequence_number, snd, wt, ping>>

(* ----------------------------- FrameHeader ----------------------------- *)

MT_ERROR == 0
MT_ACK == 160
MT_NACK == 183
MT_PING == 1
MT_EXIT == 18

\* sizeof(FLARM::FrameHeader)
HeaderSize == 8

RECURSIVE Xor(_, _)
\* bitwise exclusive or of two naturals
Xor(a, b) ==
  IF a = 0 THEN b
  ELSE IF b = 0 THEN a
  ELSE ((a + b) % 2) + 2 * Xor(a \div 2, b \div 2)

\* one bit of CRC-16-CCITT (polynomial 0x1021)
CRCBit(crc) ==
  IF crc >= 32768 THEN Xor((crc * 2) % 65536, 4129) ELSE crc * 2

RECURSIVE CRCShift(_, _)
CRCShift(crc, n) ==
  IF n = 0 THEN crc
  ELSE CHOOSE r \in {CRCShift(c, n - 1) : c \in {CRCBit(crc)}} : TRUE

\* UpdateCRC16CCITT(octet, crc)
UpdateCRC16CCITT(octet, crc) == CRCShift(Xor(crc, octet * 256), 8)

RECURSIVE UpdateCRC(_, _)
\* UpdateCRC16CCITT(data, length, crc)
UpdateCRC(bytes, crc) ==
  IF bytes = <<>> THEN crc
  ELSE CHOOSE r \in {UpdateCRC(Tail(bytes), c) : c \in {UpdateCRC16CCITT(Head(bytes), crc)}} : TRUE

LE16(v) == <<v % 256, v \div 256>>
FromLE16(b) == b[1] + 256 * b[2]

\* the in-memory bytes of a FrameHeader (packed, little-endian fields)
HeaderBytes(h) ==
  LE16(h.length) \o <<h.version>> \o LE16(h.sequence_number) \o <<h.type>> \o LE16(h.crc)

\* the FrameHeader that 8 received bytes are
HeaderOf(b) ==
  [length |-> FromLE16(SubSeq(b, 1, 2)), version |-> b[3],
   sequence_number |-> FromLE16(SubSeq(b, 4, 5)), type |-> b[6],
   crc |-> FromLE16(SubSeq(b, 7, 8))]

\* a CRC that covers the header alone
CalculateCRCHeaderOnly(header, data) ==
  UpdateCRC(HeaderBytes([header EXCEPT !.crc = 0]), 0)

\* FLARM::CalculateCRC(header, data, length): over the header with its crc
\* field zeroed, then the payload
CalculateCRC(header, data) ==
  UpdateCRC(HeaderBytes([header EXCEPT !.crc = 0]) \o data, 0)

\* PrepareFrameHeader with the payload length alone in the length field
PrepareFrameHeaderPayloadLength(seq, message_type, data) ==
  LET header == [length |-> Len(data) % 65536,
                 version |-> 0,
                 sequence_number |-> seq % 65536,
                 type |-> message_type,
                 crc |-> 0]
  IN [header EXCEPT !.crc = CalculateCRC(header, data)]

\* FLARM::PrepareFrameHeader(sequence_number, message_type, data, length)
PrepareFrameHeader(seq, message_type, data) ==
  LET header == [length |-> (HeaderSize + Len(data)) % 65536,
                 version |-> 0,
                 sequence_number |-> seq % 65536,
                 type |-> message_type,
                 crc |-> 0]
  IN [header EXCEPT !.crc = CalculateCRC(header, data)]

(* -------------------------- WaitForACKOrNACK --------------------------- *)

\* an array reallocated to the size asked for on every call
GrowDiscardExact(capacity, size) == size

\* AllocatedArray::GrowDiscard(size) on an array of this capacity: the
\* capacity afterwards (the array grows if it is too small, the old contents
\* are not kept)
GrowDiscard(capacity, size) == Max(capacity, size)

\* FlarmDevice::WaitForACKOrNACK(sequence_number, data, length, env, _timeout)
\* entered at time t; the caller's buffer `data` starts empty
EnterWaitForACKOrNACK(seq, timeout, t, ret) ==
  [NoWt EXCEPT !.seq = seq, !.timeout = TimeoutClock(timeout, t), !.ret = ret]

\* WaitForACK that takes a NACK for an ACK
ReturnFromWaitAnyReply(o, type) ==
  IF o = "BinaryPing" THEN Ret(IF type \in {MT_ACK, MT_NACK} THEN 1 ELSE 0) ELSE Ret(type)

\* WaitForACKOrNACK returns type: WaitForACK compares it with MT_ACK, and
\* BinaryPing returns what WaitForACK returned
ReturnFromWait(o, type) ==
  IF o = "BinaryPing" THEN Ret(IF type = MT_ACK THEN 1 ELSE 0) ELSE Ret(type)

\* the whole _timeout handed on again, whatever time has passed
WaitTimeoutWhole(w, t) == Max(w.timeout - arg.start, 0)

\* the timeout WaitForACKOrNACK hands to a blocking call made at time t
WaitTimeout(w, t) == GetRemainingOrZero(w.timeout, t)

\* the loop left one tick before the deadline
WaitExpiredEarly ==
  /\ pc = "WaitForACKOrNACK"
  /\ HasExpired(wt.timeout, now + 1)
  /\ pc' = "done"
  /\ result' = ReturnFromWait(op, MT_ERROR)
  /\ calls' = <<>>
  /\ UNCHANGED <<dp, wp, flip, un, built, now, tx, rx, sequence_number, op, arg, snd, rcv, wt, ping>>

\* while (!timeout.HasExpired()) fails: return FLARM::MT_ERROR
WaitExpired ==
  /\ pc = "WaitForACKOrNACK"
  /\ HasExpired(wt.timeout, now)
  /\ pc' = "done"
  /\ result' = ReturnFromWait(op, MT_ERROR)
  /\ calls' = <<>>
  /\ UNCHANGED <<dp, wp, flip, un, built, now, tx, rx, sequence_number, op, arg, snd, rcv, wt, ping>>

\* WaitForStartByte whose DeviceTimeout is swallowed: the loop goes on
WaitForStartByteSwallowed ==
  /\ pc = "WaitForACKOrNACK"
  /\ ~HasExpired(wt.timeout, now)
  /\ \E r \in WaitForByte(rx, now, START_FRAME, WaitTimeout(wt, now)) :
       /\ rx' = r.rx
       /\ now' = r.now
       /\ calls' = <<Call(WaitTimeout(wt, now), now)>>
       /\ IF r.out = "DeviceTimeout"
          THEN /\ pc' = "WaitForACKOrNACK"
               /\ result' = result
               /\ rcv' = rcv
          ELSE IF r.out # "ok"
          THEN /\ pc' = "done"
               /\ result' = Unwind(op, r.out)
               /\ rcv' = rcv
          ELSE /\ pc' = "ReceiveEscaped"
               /\ result' = result
               /\ rcv' = EnterReceiveEscaped(HeaderSize, WaitTimeout(wt, r.now), r.now,
                                             "ReceiveFrameHeader")
  /\ UNCHANGED <<dp, wp, flip, un, built, tx, sequence_number, op, arg, snd, wt, ping>>

\* top of the loop body: WaitForStartByte, then ReceiveFrameHeader is entered
WaitForStartByte ==
  /\ pc = "WaitForACKOrNACK"
  /\ ~HasExpired(wt.timeout, now)
  /\ \E r \in WaitForByte(rx, now, START_FRAME, WaitTimeout(wt, now)) :
       /\ rx' = r.rx
       /\ now' = r.now
       /\ calls' = <<Call(WaitTimeout(wt, now), now)>>
       /\ IF r.out # "ok"
          THEN /\ pc' = "done"
               /\ result' = Unwind(op, r.out)
               /\ rcv' = rcv
          ELSE /\ pc' = "ReceiveEscaped"
               /\ result' = result
               /\ rcv' = EnterReceiveEscaped(HeaderSize, WaitTimeout(wt, r.now), r.now,
                                             "ReceiveFrameHeader")
  /\ UNCHANGED <<dp, wp, flip, un, built, tx, sequence_number, op, arg, snd, wt, ping>>

\* ReceiveFrameHeader whose failure ends the wait with MT_ERROR
ReceiveFrameHeaderAbort ==
  /\ pc = "ReceiveFrameHeader"
  /\ calls' = <<>>
  /\ IF ~rcv.ok
     THEN /\ pc' = "done"
          /\ result' = ReturnFromWait(op, MT_ERROR)
          /\ UNCHANGED <<wt, rcv>>
     ELSE LET header == HeaderOf(rcv.dest)
              length == header.length
          IN /\ result' = result
             /\ IF length <= HeaderSize
                THEN /\ pc' = "WaitForACKOrNACK"
                     /\ wt' = [wt EXCEPT !.header = header, !.length = length]
                     /\ rcv' = rcv
                ELSE /\ pc' = "ReceiveEscaped"
                     /\ wt' = [wt EXCEPT !.header = header,
                                         !.length = length - HeaderSize,
                                         !.capacity = GrowDiscard(@, length - HeaderSize),
                                         !.data = <<>>]
                     /\ rcv' = EnterReceiveEscaped(length - HeaderSize, WaitTimeout(wt, now),
                                                   now, "ReceivePayload")
  /\ UNCHANGED <<dp, wp, flip, un, built, now, tx, rx, sequence_number, op, arg, snd, ping>>

\* ReceiveFrameHeader that rejects only a length below the header size
ReceiveFrameHeaderStrict ==
  /\ pc = "ReceiveFrameHeader"
  /\ calls' = <<>>
  /\ IF ~rcv.ok
     THEN /\ pc' = "WaitForACKOrNACK"
          /\ UNCHANGED <<wt, rcv>>
     ELSE LET header == HeaderOf(rcv.dest)
              length == header.length
          IN IF length < HeaderSize
             THEN /\ pc' = "WaitForACKOrNACK"
                  /\ wt' = [wt EXCEPT !.header = header, !.length = length]
                  /\ rcv' = rcv
             ELSE /\ pc' = "ReceiveEscaped"
                  /\ wt' = [wt EXCEPT !.header = header,
                                      !.length = length - HeaderSize,
                                      !.capacity = GrowDiscard(@, length - HeaderSize),
                                      !.data = <<>>]
                  /\ rcv' = EnterReceiveEscaped(length - HeaderSize, WaitTimeout(wt, now),
                                                now, "ReceivePayload")
  /\ UNCHANGED <<dp, wp, flip, un, built, now, tx, rx, sequence_number, op, arg, snd, ping, result>>

\* ReceiveFrameHeader returned: the length check, then the payload decode is
\* entered
ReceiveFrameHeader ==
  /\ pc = "ReceiveFrameHeader"
  /\ calls' = <<>>
  /\ IF ~rcv.ok
     THEN /\ pc' = "WaitForACKOrNACK"
          /\ UNCHANGED <<wt, rcv>>
     ELSE LET header == HeaderOf(rcv.dest)
              length == header.length
          IN IF length <= HeaderSize
             THEN /\ pc' = "WaitForACKOrNACK"
                  /\ wt' = [wt EXCEPT !.header = header, !.length = length]
                  /\ rcv' = rcv
             ELSE /\ pc' = "ReceiveEscaped"
                  /\ wt' = [wt EXCEPT !.header = header,
                                      !.length = length - HeaderSize,
                                      !.capacity = GrowDiscard(@, length - HeaderSize),
                                      !.data = <<>>]
                  /\ rcv' = EnterReceiveEscaped(length - HeaderSize, WaitTimeout(wt, now),
                                                now, "ReceivePayload")
  /\ UNCHANGED <<dp, wp, flip, un, built, now, tx, rx, sequence_number, op, arg, snd, ping, result>>

\* FrameMatches without the message type check
FrameMatchesAnyType(header, data, length, seq) ==
  /\ header.crc = CalculateCRC(header, data)
  /\ ~(length < 2)
  /\ FromLE16(data) = seq

\* FrameMatches without the sequence number check
FrameMatchesAnySequence(header, data, length, seq) ==
  /\ header.crc = CalculateCRC(header, data)
  /\ ~(header.type # MT_ACK /\ header.type # MT_NACK)
  /\ ~(length < 2)

\* FrameMatches without the CRC check
FrameMatchesAnyCRC(header, data, length, seq) ==
  /\ ~(header.type # MT_ACK /\ header.type # MT_NACK)
  /\ ~(length < 2)
  /\ FromLE16(data) = seq

\* the checks of a frame whose header and payload were decoded: CRC, message
\* type, payload length, sequence number
FrameMatches(header, data, length, seq) ==
  /\ header.crc = CalculateCRC(header, data)
  /\ ~(header.type # MT_ACK /\ header.type # MT_NACK)
  /\ ~(length < 2)
  /\ FromLE16(data) = seq

\* ReceivePayload that gives up with MT_ERROR instead of looping
ReceivePayloadAbort ==
  /\ pc = "ReceivePayload"
  /\ calls' = <<>>
  /\ wt' = [wt EXCEPT !.data = rcv.dest]
  /\ pc' = "done"
  /\ result' = IF rcv.ok /\ FrameMatches(wt.header, rcv.dest, wt.length, wt.seq)
               THEN ReturnFromWait(op, wt.header.type)
               ELSE ReturnFromWait(op, MT_ERROR)
  /\ UNCHANGED <<dp, wp, flip, un, built, now, tx, rx, sequence_number, op, arg, snd, rcv, ping>>

\* ReceivePayload that sends the request again when it rejects a frame
ReceivePayloadResend ==
  /\ pc = "ReceivePayload"
  /\ calls' = <<>>
  /\ wt' = [wt EXCEPT !.data = rcv.dest]
  /\ IF rcv.ok /\ FrameMatches(wt.header, rcv.dest, wt.length, wt.seq)
     THEN /\ pc' = "done"
          /\ result' = ReturnFromWait(op, wt.header.type)
          /\ tx' = tx
     ELSE /\ pc' = "WaitForACKOrNACK"
          /\ result' = result
          /\ tx' = tx \o tx
  /\ UNCHANGED <<dp, wp, flip, un, built, now, rx, sequence_number, op, arg, snd, rcv, ping>>

\* ReceiveEscaped of the payload returned: verify, then return or loop
\* the payload decoded into a buffer of its own: data is left as it was
ReceivePayloadOwnBuffer ==
  /\ pc = "ReceivePayload"
  /\ calls' = <<>>
  /\ wt' = wt
  /\ IF rcv.ok /\ FrameMatches(wt.header, rcv.dest, wt.length, wt.seq)
     THEN /\ pc' = "done"
          /\ result' = ReturnFromWait(op, wt.header.type)
     ELSE /\ pc' = "WaitForACKOrNACK"
          /\ result' = result
  /\ UNCHANGED <<dp, wp, flip, un, built, now, tx, rx, sequence_number, op, arg, snd, rcv, ping>>

ReceivePayload ==
  /\ pc = "ReceivePayload"
  /\ calls' = <<>>
  /\ wt' = [wt EXCEPT !.data = rcv.dest]
  /\ IF rcv.ok /\ FrameMatches(wt.header, rcv.dest, wt.length, wt.seq)
     THEN /\ pc' = "done"
          /\ result' = ReturnFromWait(op, wt.header.type)
     ELSE /\ pc' = "WaitForACKOrNACK"
          /\ result' = result
  /\ UNCHANGED <<dp, wp, flip, un, built, now, tx, rx, sequence_number, op, arg, snd, rcv, ping>>

(* ----------------------- BinaryPing, BinaryReset ----------------------- *)

\* the counter advanced twice for one frame
NextSequenceNumberTwice(n) == (n + 2) % 65536

\* FlarmDevice::PrepareFrameHeader(message_type): sequence_number++
NextSequenceNumber(n) == (n + 1) % 65536

\* the record of one call of FlarmDevice::PrepareFrameHeader: the counter
\* before the call, the header returned, the payload it was built for, and
\* whether the data pointer passed was null
Built(before, header, data, null) ==
  [before |-> before, header |-> header, data |-> data, null |-> null]

\* BinaryPing up to the first iteration of SendEscaped: PrepareFrameHeader,
\* SendStartByte, SendFrameHeader entered
BinaryPing ==
  /\ pc = "idle"
  /\ \E timeout \in Timeouts, w \in Write(tx, now, START_FRAME) :
       LET clock == TimeoutClock(timeout, now)
           header == PrepareFrameHeader(sequence_number, MT_PING, <<>>)
       IN /\ op' = "BinaryPing"
          /\ arg' = [NoArg EXCEPT !.timeout = timeout, !.start = now,
                                  !.seq = sequence_number, !.stream = rx]
          /\ ping' = [timeout |-> clock, header |-> header]
          /\ sequence_number' = NextSequenceNumber(sequence_number)
          /\ built' = Append(built, Built(sequence_number, header, <<>>, TRUE))
          /\ tx' = w.tx
          /\ IF w.out # "ok"
             THEN /\ pc' = "done"
                  /\ result' = Unwind("BinaryPing", w.out)
                  /\ snd' = snd
             ELSE /\ pc' = "SendEscaped"
                  /\ result' = result
                  /\ snd' = EnterSendEscaped(HeaderBytes(header),
                                             GetRemainingOrZero(clock, now), now,
                                             "WaitForACK")
  /\ calls' = <<>>
  /\ UNCHANGED <<dp, wp, flip, un, now, rx, rcv, wt>>

\* SendFrameHeader returned to BinaryPing: WaitForACK is entered
WaitForACK ==
  /\ pc = "WaitForACK"
  /\ wt' = EnterWaitForACKOrNACK(ping.header.sequence_number,
                                 GetRemainingOrZero(ping.timeout, now), now, "done")
  /\ pc' = "WaitForACKOrNACK"
  /\ calls' = <<>>
  /\ UNCHANGED <<dp, wp, flip, un, built, now, tx, rx, sequence_number, op, arg, snd, rcv, ping, result>>

\* BinaryReset that goes on to wait for the acknowledgment, as BinaryPing does
BinaryResetWaits ==
  /\ pc = "idle"
  /\ \E timeout \in Timeouts, w \in Write(tx, now, START_FRAME) :
       LET clock == TimeoutClock(timeout, now)
           header == PrepareFrameHeader(sequence_number, MT_EXIT, <<>>)
       IN /\ op' = "BinaryReset"
          /\ arg' = [NoArg EXCEPT !.timeout = timeout, !.start = now,
                                  !.seq = sequence_number, !.stream = rx]
          /\ ping' = [timeout |-> clock, header |-> header]
          /\ sequence_number' = NextSequenceNumber(sequence_number)
          /\ built' = Append(built, Built(sequence_number, header, <<>>, TRUE))
          /\ tx' = w.tx
          /\ IF w.out # "ok"
             THEN /\ pc' = "done"
                  /\ result' = Unwind("BinaryReset", w.out)
                  /\ snd' = snd
             ELSE /\ pc' = "SendEscaped"
                  /\ result' = result
                  /\ snd' = EnterSendEscaped(HeaderBytes(header),
                                             GetRemainingOrZero(clock, now), now,
                                             "WaitForACK")
  /\ calls' = <<>>
  /\ UNCHANGED <<dp, wp, flip, un, now, rx, rcv, wt>>

\* BinaryReset up to the first iteration of SendEscaped
BinaryReset ==
  /\ pc = "idle"
  /\ \E timeout \in Timeouts, w \in Write(tx, now, START_FRAME) :
       LET clock == TimeoutClock(timeout, now)
           header == PrepareFrameHeader(sequence_number, MT_EXIT, <<>>)
       IN /\ op' = "BinaryReset"
          /\ arg' = [NoArg EXCEPT !.timeout = timeout, !.start = now,
                                  !.seq = sequence_number, !.stream = rx]
          /\ ping' = [timeout |-> clock, header |-> header]
          /\ sequence_number' = NextSequenceNumber(sequence_number)
          /\ built' = Append(built, Built(sequence_number, header, <<>>, TRUE))
          /\ tx' = w.tx
          /\ IF w.out # "ok"
             THEN /\ pc' = "done"
                  /\ result' = Unwind("BinaryReset", w.out)
                  /\ snd' = snd
             ELSE /\ pc' = "SendEscaped"
                  /\ result' = result
                  /\ snd' = EnterSendEscaped(HeaderBytes(header),
                                             GetRemainingOrZero(clock, now), now, "done")
  /\ calls' = <<>>
  /\ UNCHANGED <<dp, wp, flip, un, now, rx, rcv, wt>>

\* a caller waits for the acknowledgment of the device's current sequence
\* number
CallWaitForACKOrNACK ==
  /\ pc = "idle"
  /\ \E timeout \in Timeouts :
       /\ arg' = [NoArg EXCEPT !.timeout = timeout, !.start = now,
                               !.seq = sequence_number, !.stream = rx]
       /\ wt' = EnterWaitForACKOrNACK(sequence_number, timeout, now, "done")
  /\ op' = "WaitForACKOrNACK"
  /\ pc' = "WaitForACKOrNACK"
  /\ calls' = <<>>
  /\ UNCHANGED <<dp, wp, flip, un, built, now, tx, rx, sequence_number, snd, rcv, ping, result>>

(* ------------------------- the inbound streams ------------------------- *)

RECURSIVE Stuffed(_)
\* the protocol's byte stuffing of a byte sequence, byte by byte
Stuffed(b) ==
  IF b = <<>> THEN <<>>
  ELSE (CASE Head(b) = START_FRAME -> <<ESCAPE, ESCAPE_START>>
          [] Head(b) = ESCAPE -> <<ESCAPE, ESCAPE_ESCAPE>>
          [] OTHER -> <<Head(b)>>) \o Stuffed(Tail(b))

\* a frame on the wire, as the peer sends it
WireFrame(header, data) == <<START_FRAME>> \o Stuffed(HeaderBytes(header)) \o Stuffed(data)

\* what the peer may send while sequence number s is awaited
Replies(s) ==
  LET PeerSeq == 1   \* the peer numbers its own frames
      ack == PrepareFrameHeader(PeerSeq, MT_ACK, LE16(s))
      other == (s + 1) % 65536
  IN [Ack |-> WireFrame(ack, LE16(s)),
      Nack |-> WireFrame(PrepareFrameHeader(PeerSeq, MT_NACK, LE16(s)), LE16(s)),
      LongAck |-> WireFrame(PrepareFrameHeader(PeerSeq, MT_ACK, LE16(s) \o <<0>>),
                            LE16(s) \o <<0>>),
      OtherAck |-> WireFrame(PrepareFrameHeader(PeerSeq, MT_ACK, LE16(other)), LE16(other)),
      WrongType |-> WireFrame(PrepareFrameHeader(PeerSeq, MT_PING, LE16(s)), LE16(s)),
      ShortAck |-> WireFrame(PrepareFrameHeader(PeerSeq, MT_ACK, <<s % 256>>), <<s % 256>>),
      NoPayload |-> WireFrame(PrepareFrameHeader(PeerSeq, MT_ACK, <<>>), <<>>),
      BadCRC |-> WireFrame([ack EXCEPT !.crc = (@ + 1) % 65536], LE16(s)),
      BadLength |-> WireFrame([ack EXCEPT !.length = HeaderSize - 1], LE16(s)),
      LongLength |-> WireFrame([ack EXCEPT !.length = @ + 1], LE16(s)),
      BadEscape |-> <<START_FRAME, ESCAPE, 0>>,
      Cut |-> SubSeq(WireFrame(ack, LE16(s)), 1, HeaderSize)]

ReplyKinds == DOMAIN Replies(0)

\* most frames of one inbound stream
MaxFrames == 2

RECURSIVE StreamsOf(_, _)
StreamsOf(s, n) ==
  IF n = 0 THEN {<<>>}
  ELSE LET shorter == StreamsOf(s, n - 1)
       IN shorter \cup {t \o Replies(s)[k] : t \in shorter, k \in ReplyKinds}

\* the values the device's sequence counter starts from: one whose low byte
\* must be escaped on the wire, and the last before the counter wraps
SequenceNumbers == {START_FRAME, 65535}

\* Replies, tabulated
Reply == [s \in SequenceNumbers |-> Replies(s)]

Init ==
  /\ now = 0
  /\ tx = <<>>
  /\ sequence_number \in SequenceNumbers
  /\ rx \in StreamsOf(sequence_number, MaxFrames)
  /\ pc = "idle"
  /\ op = "none"
  /\ arg = NoArg
  /\ snd = NoSnd
  /\ rcv = NoRcv
  /\ wt = NoWt
  /\ ping = NoPing
  /\ result = NoResult
  /\ calls = <<>>
  /\ built = <<>>
  /\ flip = NoFlip
  /\ un = NoUn
  /\ dp = NoDp
  /\ wp = NoWp

Next ==
  \/ BinaryPing
  \/ BinaryReset
  \/ CallWaitForACKOrNACK
  \/ CallSendEscaped
  \/ SendEscaped
  \/ WaitForACK
  \/ WaitExpired
  \/ WaitForStartByte
  \/ ReceiveEscaped
  \/ ReceiveFrameHeader
  \/ ReceivePayload

Spec == Init /\ [][Next]_vars

(* ----------------------- the codec specification ----------------------- *)

InitCodec ==
  /\ now = 0
  /\ tx = <<>>
  /\ rx \in SeqsUpTo(CodecBytes, MaxLen)
  /\ sequence_number = 0
  /\ pc = "idle"
  /\ op = "none"
  /\ arg = NoArg
  /\ snd = NoSnd
  /\ rcv = NoRcv
  /\ wt = NoWt
  /\ ping = NoPing
  /\ result = NoResult
  /\ calls = <<>>
  /\ built = <<>>
  /\ flip = NoFlip
  /\ un = NoUn
  /\ dp = NoDp
  /\ wp = NoWp

NextCodec ==
  \/ CallSendEscaped
  \/ SendEscaped
  \/ CallReceiveEscaped
  \/ ReceiveEscaped

SpecCodec == InitCodec /\ [][NextCodec]_vars

(* ------------------ several operations on a connection ----------------- *)

\* most frame headers built on one connection
MaxOps == 3

\* the invoked operation has ended and the caller invokes the next one on the
\* same FlarmDevice: the counter goes on.  The device has taken the bytes
\* written, and the clock, which is only ever read as a difference, is
\* counted from here.
Again ==
  /\ pc = "done"
  /\ Len(built) < MaxOps
  /\ pc' = "idle"
  /\ now' = 0
  /\ tx' = <<>>
  /\ op' = "none"
  /\ arg' = NoArg
  /\ snd' = NoSnd
  /\ rcv' = NoRcv
  /\ wt' = NoWt
  /\ ping' = NoPing
  /\ result' = NoResult
  /\ calls' = <<>>
  /\ UNCHANGED <<dp, wp, flip, un, built, rx, sequence_number>>

\* a silent device; the counter is two frames before it wraps, or one
InitSeq ==
  /\ now = 0
  /\ tx = <<>>
  /\ rx = <<>>
  /\ sequence_number \in {65534, 65535}
  /\ pc = "idle"
  /\ op = "none"
  /\ arg = NoArg
  /\ snd = NoSnd
  /\ rcv = NoRcv
  /\ wt = NoWt
  /\ ping = NoPing
  /\ result = NoResult
  /\ calls = <<>>
  /\ built = <<>>
  /\ flip = NoFlip
  /\ un = NoUn
  /\ dp = NoDp
  /\ wp = NoWp

NextSeq ==
  \/ BinaryPing
  \/ BinaryReset
  \/ SendEscaped
  \/ WaitForACK
  \/ WaitExpired
  \/ WaitForStartByte
  \/ Again

SpecSeq == InitSeq /\ [][NextSeq]_vars

(* ------------------- a frame with a payload, both ways ------------------ *)

\* longest payload a frame is built for
MaxPayload == 2

\* the payloads: none, or bytes among the two reserved ones and a harmless one
Payloads == SeqsUpTo({START_FRAME, ESCAPE, 0}, MaxPayload)

\* the message types frames are built with
MessageTypes == {MT_PING, MT_ACK}

\* A frame is sent: FlarmDevice::PrepareFrameHeader(message_type, data,
\* length), SendStartByte, SendFrameHeader entered; the payload follows.
SendFrame ==
  /\ pc = "idle"
  /\ \E message_type \in MessageTypes, data \in Payloads, timeout \in Timeouts,
        w \in Write(tx, now, START_FRAME) :
       LET clock == TimeoutClock(timeout, now)
           header == PrepareFrameHeader(sequence_number, message_type, data)
       IN /\ op' = "SendFrame"
          /\ arg' = [NoArg EXCEPT !.buffer = data, !.length = Len(data),
                                  !.timeout = timeout, !.start = now,
                                  !.seq = sequence_number, !.stream = rx]
          /\ ping' = [timeout |-> clock, header |-> header]
          /\ sequence_number' = NextSequenceNumber(sequence_number)
          /\ built' = Append(built, Built(sequence_number, header, data, data = <<>>))
          /\ tx' = w.tx
          /\ IF w.out # "ok"
             THEN /\ pc' = "done"
                  /\ result' = Unwind("SendFrame", w.out)
                  /\ snd' = snd
             ELSE /\ pc' = "SendEscaped"
                  /\ result' = result
                  /\ snd' = EnterSendEscaped(HeaderBytes(header),
                                             GetRemainingOrZero(clock, now), now,
                                             "SendPayload")
  /\ calls' = <<>>
  /\ UNCHANGED <<dp, wp, flip, un, now, rx, rcv, wt>>

\* SendFrameHeader returned: SendEscaped(data, length) when there is a payload
SendPayload ==
  /\ pc = "SendPayload"
  /\ IF arg.buffer = <<>>
     THEN /\ pc' = "done"
          /\ result' = Ret(0)
          /\ snd' = snd
     ELSE /\ pc' = "SendEscaped"
          /\ result' = result
          /\ snd' = EnterSendEscaped(arg.buffer, GetRemainingOrZero(ping.timeout, now),
                                     now, "done")
  /\ calls' = <<>>
  /\ UNCHANGED <<dp, wp, flip, un, built, now, tx, rx, sequence_number, op, arg, rcv, wt, ping>>

\* The frame was sent whole; the peer, waiting for the acknowledgment of its
\* own sequence number 0, receives the bytes written.
PeerReceives ==
  /\ pc = "done"
  /\ op = "SendFrame"
  /\ result = Ret(0)
  /\ rx' = tx
  /\ \E timeout \in Timeouts :
       /\ arg' = [arg EXCEPT !.timeout = timeout, !.start = now, !.seq = 0,
                             !.stream = tx]
       /\ wt' = EnterWaitForACKOrNACK(0, timeout, now, "done")
  /\ op' = "WaitForACKOrNACK"
  /\ pc' = "WaitForACKOrNACK"
  /\ result' = NoResult
  /\ calls' = <<>>
  /\ UNCHANGED <<dp, wp, flip, un, built, now, tx, sequence_number, snd, rcv, ping>>

InitFrame ==
  /\ now = 0
  /\ tx = <<>>
  /\ rx = <<>>
  /\ sequence_number \in SequenceNumbers
  /\ pc = "idle"
  /\ op = "none"
  /\ arg = NoArg
  /\ snd = NoSnd
  /\ rcv = NoRcv
  /\ wt = NoWt
  /\ ping = NoPing
  /\ result = NoResult
  /\ calls = <<>>
  /\ built = <<>>
  /\ flip = NoFlip
  /\ un = NoUn
  /\ dp = NoDp
  /\ wp = NoWp

NextFrame ==
  \/ SendFrame
  \/ SendEscaped
  \/ SendPayload
  \/ PeerReceives
  \/ WaitExpired
  \/ WaitForStartByte
  \/ ReceiveEscaped
  \/ ReceiveFrameHeader
  \/ ReceivePayload

SpecFrame == InitFrame /\ [][NextFrame]_vars

(* --------------------- a frame with one bit flipped -------------------- *)

\* the ACK for sequence number s as the peer builds it, and its bytes before
\* byte stuffing: the header, then the payload
BuiltAck(s) == PrepareFrameHeader(1, MT_ACK, LE16(s))
FrameBytes(s) == HeaderBytes(BuiltAck(s)) \o LE16(s)

\* bit k of a byte sequence flipped (bit 1: the lowest bit of the first byte)
FlipBit(bytes, k) ==
  [bytes EXCEPT ![(k - 1) \div 8 + 1] = Xor(@, 2 ^ ((k - 1) % 8))]

\* the bits of the length field of a header
LengthBits == 1..16

\* CRCBit undone
CRCUnBit(crc) ==
  IF crc % 2 = 1 THEN (Xor(crc, 4129) \div 2) + 32768 ELSE crc \div 2

\* most bytes the peer sends behind a frame to make up a longer payload
MaxExtra == 4

\* The bytes that, sent behind the frame f whose length field declares extra
\* more bytes than it has, make the CRC of the longer frame the one in f's
\* header: zeros, then the two bytes that bring the CRC register there.
Padding(f, extra) ==
  LET h == HeaderOf(SubSeq(f, 1, HeaderSize))
      zeros == [i \in 1..(extra - 2) |-> 0]
      r == UpdateCRC(HeaderBytes([h EXCEPT !.crc = 0])
                       \o SubSeq(f, HeaderSize + 1, Len(f)) \o zeros, 0)
      back == CRCUnBit(CRCUnBit(CRCUnBit(CRCUnBit(CRCUnBit(CRCUnBit(CRCUnBit(CRCUnBit(
              CRCUnBit(CRCUnBit(CRCUnBit(CRCUnBit(CRCUnBit(CRCUnBit(CRCUnBit(CRCUnBit(
                h.crc))))))))))))))))
      m == Xor(r, back)
  IN zeros \o <<m \div 256, m % 256>>

\* what the line delivers of the ACK for s: the frame with one bit of its
\* header or payload flipped, and what follows it (nothing, the ACK again,
\* or the padding of a frame whose length field was raised)
Flips(s) ==
  UNION {
    LET f == FlipBit(FrameBytes(s), k)
        extra == FromLE16(SubSeq(f, 1, 2)) - Len(f)
    IN {[bit |-> k, frame |-> <<START_FRAME>> \o Stuffed(f), tail |-> t] :
          t \in {<<>>, WireFrame(BuiltAck(s), LE16(s))}
                \cup (IF extra >= 2 /\ extra <= MaxExtra
                      THEN {Stuffed(Padding(f, extra))} ELSE {})}
    : k \in 1..(8 * Len(FrameBytes(s)))}

InitFlip ==
  /\ now = 0
  /\ tx = <<>>
  /\ sequence_number \in SequenceNumbers
  /\ flip \in Flips(sequence_number)
  /\ rx = flip.frame \o flip.tail
  /\ pc = "idle"
  /\ op = "none"
  /\ arg = NoArg
  /\ snd = NoSnd
  /\ rcv = NoRcv
  /\ wt = NoWt
  /\ ping = NoPing
  /\ result = NoResult
  /\ calls = <<>>
  /\ built = <<>>
  /\ un = NoUn
  /\ dp = NoDp
  /\ wp = NoWp

NextFlip ==
  \/ CallWaitForACKOrNACK
  \/ WaitExpired
  \/ WaitForStartByte
  \/ ReceiveEscaped
  \/ ReceiveFrameHeader
  \/ ReceivePayload

SpecFlip == InitFlip /\ [][NextFlip]_vars

(* ---------------- ReceiveSomeUnescape, statement by statement ----------- *)

\* p and src at the start of the for loop, over the nbytes bytes read
\* with p one byte into the span
EnterUnescapeAhead(data) ==
  [dest |-> data, nbytes |-> Len(data), src |-> 1, p |-> 2, st |-> "loop"]

EnterUnescape(data) ==
  [dest |-> data, nbytes |-> Len(data), src |-> 1, p |-> 1, st |-> "loop"]

\* ReceiveSomeUnescape is called with a span of n bytes
CallReceiveSomeUnescape ==
  /\ pc = "idle"
  /\ \E n \in 1..MaxLen, timeout \in Timeouts :
       /\ arg' = [NoArg EXCEPT !.length = n, !.timeout = timeout, !.start = now,
                               !.stream = rx]
       /\ un' = [NoUn EXCEPT !.n = n, !.timeout = TimeoutClock(timeout, now),
                             !.st = "read"]
  /\ op' = "ReceiveSomeUnescape"
  /\ pc' = "ReceiveSomeUnescape"
  /\ result' = NoResult
  /\ calls' = <<>>
  /\ UNCHANGED <<dp, wp, flip, built, now, tx, rx, sequence_number, snd, rcv, wt, ping>>

\* nbytes = port.WaitAndRead(dest, env, timeout), then p, end and src are set
UnescapeRead ==
  /\ pc = "ReceiveSomeUnescape"
  /\ un.st = "read"
  /\ \E a \in WaitAndRead(rx, now, un.n, un.timeout) :
       /\ rx' = a.rx
       /\ now' = a.now
       /\ IF a.out = "ok"
          THEN /\ un' = [k \in DOMAIN un |->
                           IF k \in {"n", "timeout"} THEN un[k] ELSE EnterUnescape(a.data)[k]]
               /\ pc' = pc
               /\ result' = result
          ELSE /\ un' = un
               /\ pc' = "done"
               /\ result' = Unwind(op, a.out)
  /\ calls' = <<Call(GetRemainingOrZero(un.timeout, now), now)>>
  /\ UNCHANGED <<dp, wp, flip, built, tx, sequence_number, op, arg, snd, rcv, wt, ping>>

\* lines 87-93 with the byte ch behind ESCAPE, src already past it
UnescapePair(ch, src) ==
  IF ch = ESCAPE_START
  THEN /\ un' = [un EXCEPT !.dest[un.p] = START_FRAME, !.p = @ + 1, !.src = src]
       /\ pc' = pc
       /\ result' = result
  ELSE IF ch = ESCAPE_ESCAPE
  THEN /\ un' = [un EXCEPT !.dest[un.p] = ESCAPE, !.p = @ + 1, !.src = src]
       /\ pc' = pc
       /\ result' = result
  ELSE /\ un' = [un EXCEPT !.src = src, !.st = "null"]
       /\ pc' = "done"
       /\ result' = Ret(0)

\* one iteration of the for loop
UnescapeStep ==
  /\ pc = "ReceiveSomeUnescape"
  /\ un.st = "loop"
  /\ un.src # un.nbytes + 1
  /\ IF un.dest[un.src] = ESCAPE
     THEN IF un.src + 1 = un.nbytes + 1
          THEN LET remaining == GetRemainingOrZero(un.timeout, now)
               IN \E b \in WaitReadByte(rx, now, remaining) :
                    /\ rx' = b.rx
                    /\ now' = b.now
                    /\ calls' = <<Call(remaining, now)>>
                    /\ IF b.out = "ok"
                       THEN UnescapePair(b.data[1], un.src + 1)
                       ELSE /\ un' = [un EXCEPT !.src = @ + 1, !.st = "thrown"]
                            /\ pc' = "done"
                            /\ result' = Unwind(op, b.out)
          ELSE /\ UnescapePair(un.dest[un.src + 1], un.src + 2)
               /\ calls' = <<>>
               /\ UNCHANGED <<rx, now>>
     ELSE /\ un' = [un EXCEPT !.dest[un.p] = un.dest[un.src], !.p = @ + 1, !.src = @ + 1]
          /\ pc' = pc
          /\ result' = result
          /\ calls' = <<>>
          /\ UNCHANGED <<rx, now>>
  /\ UNCHANGED <<dp, wp, flip, built, tx, sequence_number, op, arg, snd, rcv, wt, ping>>

\* src == end: return p, as the number of bytes from dest.data() to it
UnescapeReturn ==
  /\ pc = "ReceiveSomeUnescape"
  /\ un.st = "loop"
  /\ un.src = un.nbytes + 1
  /\ un' = [un EXCEPT !.st = "end"]
  /\ pc' = "done"
  /\ result' = Ret(un.p - 1)
  /\ calls' = <<>>
  /\ UNCHANGED <<dp, wp, flip, built, now, tx, rx, sequence_number, op, arg, snd, rcv, wt, ping>>

NextUnescape ==
  \/ CallReceiveSomeUnescape
  \/ UnescapeRead
  \/ UnescapeStep
  \/ UnescapeReturn

SpecUnescape == InitCodec /\ [][NextUnescape]_vars

(* ------------------------------ DumpPort ------------------------------- *)

\* steady_clock::time_point{} and steady_clock::time_point::max(); the clock
\* of the model counts in units far coarser than the clock's ticks
TimePointZero == 0
TimePointMax == 2147483647

\* the bytes the peer has sent, and those the caller has to send
Inbound == [i \in 1..MaxLen |-> i % 2]
Outbound == [i \in 1..MaxLen |-> (i + 1) % 2]

\* the wrapped port. Port::Write(std::span<const std::byte>): writes some
\* of src and returns how many bytes, or throws
PortWrite(w, t, src) ==
  {[res |-> [kind |-> "return", val |-> k, exc |-> "none", data |-> <<>>],
    tx |-> w \o SubSeq(src, 1, k), rx |-> <<>>, now |-> t] : k \in 0..Len(src)}
  \cup {[res |-> [kind |-> "throw", val |-> 0, exc |-> "PortError", data |-> <<>>],
         tx |-> w, rx |-> <<>>, now |-> t]}

\* Port::Read(std::span<std::byte>) with |dest| = n: hands out up to n of
\* the bytes that are there, without blocking, or throws
PortRead(r, t, n) ==
  {[res |-> [kind |-> "return", val |-> k, exc |-> "none", data |-> SubSeq(r, 1, k)],
    tx |-> <<>>, rx |-> SubSeq(r, k + 1, Len(r)), now |-> t] : k \in 0..Min(n, Len(r))}
  \cup {[res |-> [kind |-> "throw", val |-> 0, exc |-> "PortError", data |-> <<>>],
         tx |-> <<>>, rx |-> r, now |-> t]}

\* Port::WaitRead(timeout): returns when a byte is there, throws
\* DeviceTimeout when the timeout passes first, or throws something else
PortWaitRead(r, t, timeout) ==
  {[res |-> [kind |-> "return", val |-> 0, exc |-> "none", data |-> <<>>],
    tx |-> <<>>, rx |-> r, now |-> t + dt] : dt \in IF Len(r) > 0 THEN 0..timeout ELSE {}}
  \cup {[res |-> [kind |-> "throw", val |-> 0, exc |-> "DeviceTimeout", data |-> <<>>],
         tx |-> <<>>, rx |-> r, now |-> t + timeout]}
  \cup {[res |-> [kind |-> "throw", val |-> 0, exc |-> "PortError", data |-> <<>>],
         tx |-> <<>>, rx |-> r, now |-> t]}

\* CheckEnabled that lets the very instant `until` still count as enabled
CheckEnabledLate(until, t) ==
  IF until = TimePointZero THEN [ret |-> FALSE, until |-> until]
  ELSE IF until = TimePointMax THEN [ret |-> TRUE, until |-> until]
  ELSE IF t > until THEN [ret |-> FALSE, until |-> TimePointZero]
  ELSE [ret |-> TRUE, until |-> until]

\* DumpPort::CheckEnabled() called at time t: what it returns and what it
\* leaves in `until`
CheckEnabled(until, t) ==
  IF until = TimePointZero THEN [ret |-> FALSE, until |-> until]
  ELSE IF until = TimePointMax THEN [ret |-> TRUE, until |-> until]
  ELSE IF t >= until THEN [ret |-> FALSE, until |-> TimePointZero]
  ELSE [ret |-> TRUE, until |-> until]

\* LogFormat and HexDump: one entry of the log each
Logged(log, enabled, entries) == IF enabled THEN log \o entries ELSE log

\* what a call made at time t on the DumpPort d leaves behind: the call,
\* the one made on the wrapped port, what that gave, what the caller gets,
\* what was logged, and `until` as the call found it
Dumped(d, ce, t, call, inner, got, ret, entries) ==
  [until |-> ce.until, enabled |-> ce.ret, log |-> Logged(<<>>, ce.ret, entries),
   inner |-> inner, call |-> call, ret |-> ret, got |-> got,
   before |-> d.until, at |-> t, n |-> d.n + 1]

\* a Write that reports all of src as written
DumpPortWriteWhole(d, w, t, src) ==
  LET ce == CheckEnabled(d.until, t)
      call == [method |-> "Write", arg |-> src]
  IN {[dp |-> Dumped(d, ce, t, call, <<call>>, o.res,
                     IF o.res.kind = "throw" THEN o.res
                     ELSE [o.res EXCEPT !.val = Len(src)],
                     <<>>),
       tx |-> o.tx, now |-> o.now] : o \in PortWrite(w, t, src)}

\* DumpPort::Write(src)
DumpPortWrite(d, w, t, src) ==
  LET ce == CheckEnabled(d.until, t)
      call == [method |-> "Write", arg |-> src]
  IN {[dp |-> Dumped(d, ce, t, call, <<call>>, o.res, o.res,
                     IF o.res.kind = "throw"
                     THEN <<<<"Write", Len(src)>>, <<"Write=error", Len(src)>>>>
                     ELSE <<<<"Write", Len(src)>>, <<"Write=", Len(src), o.res.val>>,
                            <<"W ", SubSeq(src, 1, o.res.val)>>>>),
       tx |-> o.tx, now |-> o.now] : o \in PortWrite(w, t, src)}

\* DumpPort::Read(dest) with |dest| = n; nothing catches what the wrapped
\* Read throws
DumpPortRead(d, r, t, n) ==
  LET ce == CheckEnabled(d.until, t)
      call == [method |-> "Read", arg |-> n]
  IN {[dp |-> Dumped(d, ce, t, call, <<call>>, o.res, o.res,
                     IF o.res.kind = "throw"
                     THEN <<<<"Read", n>>>>
                     ELSE IF o.res.val > 0
                     THEN <<<<"Read", n>>, <<"Read=", n, o.res.val>>, <<"R ", o.res.data>>>>
                     ELSE <<<<"Read", n>>, <<"Read=", n, o.res.val>>>>),
       rx |-> o.rx, now |-> o.now] : o \in PortRead(r, t, n)}

\* DumpPort::WaitRead(timeout)
DumpPortWaitRead(d, r, t, timeout) ==
  LET ce == CheckEnabled(d.until, t)
      call == [method |-> "WaitRead", arg |-> timeout]
  IN {[dp |-> Dumped(d, ce, t, call, <<call>>, o.res, o.res,
                     IF o.res.kind = "return"
                     THEN <<<<"WaitRead", timeout>>>>
                     ELSE IF o.res.exc = "DeviceTimeout"
                     THEN <<<<"WaitRead", timeout>>, <<"WaitRead=timeout", timeout>>>>
                     ELSE <<<<"WaitRead", timeout>>, <<"WaitRead=error", timeout>>>>),
       rx |-> o.rx, now |-> o.now] : o \in PortWaitRead(r, t, timeout)}

flarm == <<sequence_number, pc, op, arg, snd, rcv, wt, ping, result, calls, built,
           flip, un>>

DumpWrite ==
  /\ dp.n < MaxOps
  /\ \E k \in 0..(MaxLen - Len(tx)) :
     \E src \in {SubSeq(Outbound, Len(tx) + 1, Len(tx) + k)} : \E o \in DumpPortWrite(dp, tx, now, src) :
       /\ dp' = o.dp
       /\ tx' = o.tx
       /\ now' = o.now
  /\ UNCHANGED <<flarm, wp, rx>>

DumpRead ==
  /\ dp.n < MaxOps
  /\ \E n \in 0..MaxLen : \E o \in DumpPortRead(dp, rx, now, n) :
       /\ dp' = o.dp
       /\ rx' = o.rx
       /\ now' = o.now
  /\ UNCHANGED <<flarm, wp, tx>>

DumpWaitRead ==
  /\ dp.n < MaxOps
  /\ \E timeout \in 0..MaxTimeout : \E o \in DumpPortWaitRead(dp, rx, now, timeout) :
       /\ dp' = o.dp
       /\ rx' = o.rx
       /\ now' = o.now
  /\ UNCHANGED <<flarm, wp, tx>>

\* DumpPort::Disable(), EnableTemporarily(duration) and EnableForever()
DumpDisable ==
  /\ dp.until # TimePointZero
  /\ dp' = [dp EXCEPT !.until = TimePointZero]
  /\ UNCHANGED <<flarm, wp, tx, rx, now>>

DumpEnableTemporarily ==
  /\ \E duration \in 0..MaxTimeout :
       /\ dp.until # now + duration
       /\ dp' = [dp EXCEPT !.until = now + duration]
  /\ UNCHANGED <<flarm, wp, tx, rx, now>>

DumpEnableForever ==
  /\ dp.until # TimePointMax
  /\ dp' = [dp EXCEPT !.until = TimePointMax]
  /\ UNCHANGED <<flarm, wp, tx, rx, now>>

InitDump ==
  /\ now = 1
  /\ tx = <<>>
  /\ rx = Inbound
  /\ sequence_number = 0
  /\ pc = "idle"
  /\ op = "none"
  /\ arg = NoArg
  /\ snd = NoSnd
  /\ rcv = NoRcv
  /\ wt = NoWt
  /\ ping = NoPing
  /\ result = NoResult
  /\ calls = <<>>
  /\ built = <<>>
  /\ flip = NoFlip
  /\ un = NoUn
  /\ dp = NoDp
  /\ wp = NoWp

NextDump ==
  \/ DumpWrite
  \/ DumpRead
  \/ DumpWaitRead
  \/ DumpDisable
  \/ DumpEnableTemporarily
  \/ DumpEnableForever

SpecDump == InitDump /\ [][NextDump]_vars

(* --------------------------- ReadWayPointFile -------------------------- *)

MaxLines == 3

\* a line of a waypoint file: its text as far as the reader looks at it,
\* how ParseWayPointString ends on it (TRUE, FALSE, or a structured
\* exception raised while parsing), and whether the waypoint it describes
\* lies within the terrain
Line(text, parse, inside) == [text |-> text, parse |-> parse, inside |-> inside]

Lines ==
  {Line(<<>>, "FALSE", FALSE),
   Line(<<"*", "*">>, "FALSE", FALSE),
   Line(<<"*", "1">>, "FALSE", FALSE),
   Line(<<"1", "*">>, "TRUE", TRUE),
   Line(<<"1", ",">>, "TRUE", FALSE),
   Line(<<"1", "1">>, "FALSE", FALSE),
   Line(<<",", "1">>, "fault", FALSE)}

\* _tcsstr(TempString, prefix) == TempString
StartsWith(text, prefix) ==
  /\ Len(text) >= Len(prefix)
  /\ SubSeq(text, 1, Len(prefix)) = prefix

RECURSIVE FileSize(_)
\* zzip_file_size: every line with its line end
FileSize(file) ==
  IF file = <<>> THEN 0 ELSE Len(Head(file).text) + 1 + FileSize(Tail(file))

\* the answers of dlgWaypointOutOfTerrain
TerrainBounds == {"wpTerrainBoundsYes", "wpTerrainBoundsNo", "wpTerrainBoundsYesAll",
                  "wpTerrainBoundsNoAll", "mrCancel"}

\* WaypointInTerrainRange(new_waypoint): what it returns and what it leaves
\* in WaypointOutOfTerrainRangeDontAskAgain
WaypointInTerrainRange(w, line) ==
  LET ask == w.WaypointOutOfTerrainRangeDontAskAgain
  IN IF ask = 1 THEN {[ret |-> TRUE, ask |-> ask]}
     ELSE IF ~w.isTerrainLoaded THEN {[ret |-> TRUE, ask |-> ask]}
     ELSE IF line.inside THEN {[ret |-> TRUE, ask |-> ask]}
     ELSE IF ask = 0
       THEN {[ret |-> res \in {"wpTerrainBoundsYes", "wpTerrainBoundsYesAll"},
              ask |-> IF res = "wpTerrainBoundsYesAll" THEN 1
                      ELSE IF res \in {"wpTerrainBoundsNoAll", "mrCancel"} THEN 2
                      ELSE ask] : res \in TerrainBounds}
     ELSE {[ret |-> FALSE, ask |-> ask]}

\* way_points.pop()
Pop(list) == SubSeq(list, 1, Len(list) - 1)

\* the loop goes on with the next line; v is what became of this one
Continue(w, list, ask, v) ==
  [w EXCEPT !.way_points = list, !.WaypointOutOfTerrainRangeDontAskAgain = ask,
            !.nLineNumber = @ + 1, !.verdicts = Append(@, v)]

\* the function is left: by return (why says where) or by an exception
Leave(w, st, why) == [w EXCEPT !.st = st, !.why = why]

\* the same with the entry left in place when ParseWayPointString fails
ParsedKeepsEntry(w, line, list) ==
  IF line.parse = "fault"
    THEN IF w.HAVEEXCEPTIONS
           THEN {Continue(w, list, w.WaypointOutOfTerrainRangeDontAskAgain, "fault")}
           ELSE {Leave([w EXCEPT !.way_points = list, !.nLineNumber = @ + 1],
                       "thrown", "ParseWayPointString")}
  ELSE IF line.parse = "FALSE"
    THEN {Continue(w, list, w.WaypointOutOfTerrainRangeDontAskAgain, "parse")}
  ELSE {IF o.ret THEN Continue(w, list, o.ask, "accepted")
        ELSE Continue(w, Pop(list), o.ask, "range") :
          o \in WaypointInTerrainRange(w, line)}

\* lines 219-235 with new_waypoint appended: the entry is popped when
\* ParseWayPointString or WaypointInTerrainRange gives false; an exception
\* raised in between is handled only in a build with HAVEEXCEPTIONS, where
\* ParseWayPointError gives 1 and the loop goes on with the entry in place
Parsed(w, line, list) ==
  IF line.parse = "fault"
    THEN IF w.HAVEEXCEPTIONS
           THEN {Continue(w, list, w.WaypointOutOfTerrainRangeDontAskAgain, "fault")}
           ELSE {Leave([w EXCEPT !.way_points = list, !.nLineNumber = @ + 1],
                       "thrown", "ParseWayPointString")}
  ELSE IF line.parse = "FALSE"
    THEN {Continue(w, Pop(list), w.WaypointOutOfTerrainRangeDontAskAgain, "parse")}
  ELSE {IF o.ret THEN Continue(w, list, o.ask, "accepted")
        ELSE Continue(w, Pop(list), o.ask, "range") :
          o \in WaypointInTerrainRange(w, line)}

\* one pass of the while loop, ReadString included
ReadWayPointLine(w) ==
  IF w.nLineNumber = Len(w.file) THEN {Leave(w, "returned", "ReadString")}
  ELSE LET line == w.file[w.nLineNumber + 1]
           ask == w.WaypointOutOfTerrainRangeDontAskAgain
       IN IF StartsWith(line.text, <<"*", "*">>) THEN {Continue(w, w.way_points, ask, "comment")}
          ELSE IF StartsWith(line.text, <<"*">>) THEN {Continue(w, w.way_points, ask, "comment")}
          ELSE IF line.text = <<>> THEN {Continue(w, w.way_points, ask, "empty")}
          ELSE {Leave([w EXCEPT !.nLineNumber = @ + 1], "returned", "append")}
               \cup Parsed(w, line, Append(w.way_points, w.nLineNumber + 1))

\* ReadWayPointFile up to the loop
EnterReadWayPointFile ==
  /\ wp.st = "called"
  /\ wp' = IF FileSize(wp.file) = 0 THEN Leave(wp, "returned", "fSize")
           ELSE [wp EXCEPT !.st = "loop"]
  /\ UNCHANGED <<flarm, dp, now, tx, rx>>

ReadWayPointFileLoop ==
  /\ wp.st = "loop"
  /\ wp' \in ReadWayPointLine(wp)
  /\ UNCHANGED <<flarm, dp, now, tx, rx>>

InitWay ==
  /\ now = 0
  /\ tx = <<>>
  /\ rx = <<>>
  /\ sequence_number = 0
  /\ pc = "idle"
  /\ op = "none"
  /\ arg = NoArg
  /\ snd = NoSnd
  /\ rcv = NoRcv
  /\ wt = NoWt
  /\ ping = NoPing
  /\ result = NoResult
  /\ calls = <<>>
  /\ built = <<>>
  /\ flip = NoFlip
  /\ un = NoUn
  /\ dp = NoDp
  /\ \E file \in SeqsUpTo(Lines, MaxLines), have \in BOOLEAN, loaded \in BOOLEAN,
        ask \in 0..2, before \in 0..1 :
       wp = [NoWp EXCEPT !.file = file, !.HAVEEXCEPTIONS = have,
                         !.isTerrainLoaded = loaded,
                         !.WaypointOutOfTerrainRangeDontAskAgain = ask,
                         !.way_points = [i \in 1..before |-> 0], !.before = before,
                         !.st = "called"]

NextWay ==
  \/ EnterReadWayPointFile
  \/ ReadWayPointFileLoop

SpecWay == InitWay /\ [][NextWay]_vars

(* ============================== claims ================================= *)

IsPrefix(a, b) == Len(a) <= Len(b) /\ SubSeq(b, 1, Len(a)) = a
IsSuffix(a, b) == Len(a) <= Len(b) /\ SubSeq(b, Len(b) - Len(a) + 1, Len(b)) = a

\* SendEscaped(b) completed and its output was decoded with length |b|
Decoded ==
  /\ op = "ReceiveEscaped"
  /\ arg.buffer # <<>>
  /\ arg.length = Len(arg.buffer)

\* C1: whatever buffer b SendEscaped was given, decoding the bytes it wrote
\* with ReceiveEscaped(length = |b|) returns true and leaves exactly b in the
\* destination, however the reads split the stream; what is decoded so far
\* is a prefix of b at every pass.
C1_RoundTrip ==
  Decoded =>
    /\ IsPrefix(rcv.dest, arg.buffer)
    /\ (pc = "done" /\ result.kind = "return") =>
         (result.val = 1 /\ rcv.dest = arg.buffer)

C1_Witness ==
  /\ Decoded
  /\ arg.buffer = <<START_FRAME, ESCAPE, 0>>
  /\ pc = "done"
  /\ result = Ret(1)
  /\ rcv.dest = arg.buffer
  /\ rx = <<>>

\* the bytes SendEscaped itself wrote: in a frame, all but the leading marker
EscapedPart ==
  IF op \in {"BinaryPing", "BinaryReset"} THEN SubSeq(tx, 2, Len(tx)) ELSE tx

\* C2: the bytes written by SendEscaped hold no START_FRAME at all, and,
\* unless a write threw in the middle of a pair, every ESCAPE among them is
\* directly followed by ESCAPE_START or ESCAPE_ESCAPE; a frame starts with
\* the one raw START_FRAME.
C2_NoRawReserved ==
  /\ \A i \in 1..Len(EscapedPart) : EscapedPart[i] # START_FRAME
  /\ result.kind # "throw" =>
       \A i \in 1..Len(EscapedPart) :
         EscapedPart[i] = ESCAPE =>
           /\ i < Len(EscapedPart)
           /\ EscapedPart[i + 1] \in {ESCAPE_START, ESCAPE_ESCAPE}
  /\ (op \in {"BinaryPing", "BinaryReset"} /\ tx # <<>>) => tx[1] = START_FRAME

C2_Witness ==
  /\ op = "SendEscaped"
  /\ pc = "done"
  /\ result = Ret(0)
  /\ arg.buffer = <<ESCAPE, START_FRAME, START_FRAME>>
  /\ Len(tx) = 6

\* C3: the bytes SendEscaped has written are, at every iteration, the
\* byte-wise stuffing of the input consumed so far, and of the whole input
\* when it returns.
C3_ReferenceEncoding ==
  /\ (op = "SendEscaped" /\ pc = "SendEscaped") =>
       tx = Stuffed(SubSeq(snd.buffer, 1, snd.p - 1))
  /\ (op = "SendEscaped" /\ pc = "done" /\ result.kind = "return") =>
       tx = Stuffed(arg.buffer)

C3_Witness ==
  /\ op = "SendEscaped"
  /\ pc = "done"
  /\ result = Ret(0)
  /\ arg.buffer = <<0, START_FRAME, ESCAPE>>
  /\ tx = <<0, ESCAPE, ESCAPE_START, ESCAPE, ESCAPE_ESCAPE>>

\* the inbound bytes the invoked operation has taken from the port
Consumed == SubSeq(arg.stream, 1, Len(arg.stream) - Len(rx))

\* what the claims require of an accepted frame with header h and payload d
ValidReply(h, d, seq) ==
  /\ h.crc = CalculateCRC(h, d)
  /\ h.type \in {MT_ACK, MT_NACK}
  /\ Len(d) >= 2
  /\ d[1] + 256 * d[2] = seq

WaitDone == op = "WaitForACKOrNACK" /\ pc = "done"

\* C4: WaitForACKOrNACK returns a type other than MT_ERROR only for a frame
\* just taken from the wire whose CRC verifies, whose type is ACK or NACK and
\* whose payload starts with the expected sequence number, and then returns
\* that frame's type; a decoded frame failing one of these leads back to the
\* top of the loop with nothing returned.
C4_AcceptedOnlyIfValid ==
  /\ [](WaitDone /\ result.kind = "return" /\ result.val # MT_ERROR =>
          /\ ValidReply(wt.header, wt.data, arg.seq)
          /\ Len(wt.data) = wt.header.length - HeaderSize
          /\ result.val = wt.header.type
          /\ IsSuffix(WireFrame(wt.header, wt.data), Consumed))
  /\ [][(op = "WaitForACKOrNACK" /\ pc = "ReceivePayload"
           /\ ~(rcv.ok /\ ValidReply(wt.header, rcv.dest, arg.seq)))
          => (pc' = "WaitForACKOrNACK" /\ result' = NoResult)]_vars

C4_Witness ==
  /\ WaitDone
  /\ result = Ret(MT_NACK)
  /\ arg.stream = Reply[arg.seq].WrongType \o Reply[arg.seq].Nack

\* a stream of one rejected frame followed by one good ACK
RejectedThenAck(kind) ==
  /\ op = "WaitForACKOrNACK"
  /\ arg.stream = Reply[arg.seq][kind] \o Reply[arg.seq].Ack

\* the wait ended: with MT_ACK once both frames were taken, or with MT_ERROR
\* at an expired deadline with the ACK frame still whole on the port, or by
\* an exception of a port call
EndsOnlyByAckOrDeadline ==
  pc = "done" =>
    \/ result = Ret(MT_ACK) /\ rx = <<>>
    \/ /\ result = Ret(MT_ERROR)
       /\ HasExpired(wt.timeout, now)
       /\ rx \in {arg.stream, Reply[arg.seq].Ack}
    \/ result.kind = "throw"

\* C5: an ACK with a valid CRC but another sequence number does not end the
\* wait; the ACK for the expected number that follows is matched.
C5_SequenceMatching ==
  RejectedThenAck("OtherAck") => EndsOnlyByAckOrDeadline

C5_Witness ==
  /\ RejectedThenAck("OtherAck")
  /\ pc = "done"
  /\ result = Ret(MT_ACK)
  /\ now = arg.start + arg.timeout

\* once the port has handed out the whole stream, the wait has returned
\* MT_ACK (or an I/O error ended it)
MatchedOnceDelivered ==
  (pc = "done" /\ rx = <<>>) => result \in {Ret(MT_ACK), Throw("PortError")}

\* C6 as stated: whatever makes the CRC of the first frame fail (here: an
\* altered crc field, or an altered length field), the valid ACK that follows
\* it directly is matched.
C6_AnyBadCRC ==
  \A kind \in {"BadCRC", "LongLength"} :
    RejectedThenAck(kind) =>
      /\ EndsOnlyByAckOrDeadline
      /\ MatchedOnceDelivered

\* C6 amended: a frame whose CRC does not verify but whose declared length
\* is the length of what was sent, directly followed by a valid ACK for the
\* expected sequence number: the ACK is matched, within the original timeout.
C6_Resynchronisation ==
  RejectedThenAck("BadCRC") =>
    /\ EndsOnlyByAckOrDeadline
    /\ MatchedOnceDelivered
    /\ now <= arg.start + arg.timeout

C6_Witness ==
  /\ RejectedThenAck("BadCRC")
  /\ pc = "done"
  /\ result = Ret(MT_ACK)
  /\ rx = <<>>
  /\ now > arg.start

\* a header or payload decode has just returned to WaitForACKOrNACK with a
\* malformed frame: bad escape sequence, undersized length, CRC mismatch
Malformed ==
  \/ /\ pc = "ReceiveFrameHeader"
     /\ (~rcv.ok \/ HeaderOf(rcv.dest).length < HeaderSize)
  \/ /\ pc = "ReceivePayload"
     /\ (~rcv.ok \/ wt.header.crc # CalculateCRC(wt.header, rcv.dest))

\* C7: a malformed frame is dropped: the next step is back at the top of the
\* loop, with nothing returned and nothing thrown.
C7_MalformedDiscarded ==
  [][Malformed => (pc' = "WaitForACKOrNACK" /\ result' = NoResult)]_vars

C7_Witness ==
  /\ op = "WaitForACKOrNACK"
  /\ pc = "WaitForACKOrNACK"
  /\ arg.stream = Reply[arg.seq].BadCRC \o Reply[arg.seq].BadEscape
  /\ rx = Reply[arg.seq].BadEscape
  /\ ~HasExpired(wt.timeout, now)

C9_TwoOutcomes ==
  (WaitDone /\ result.exc # "PortError") =>
    /\ result.kind = "return"
    /\ result.val = MT_ERROR => HasExpired(wt.timeout, now)

\* C9 amended: WaitForACKOrNACK ends in one of three ways: it returns the
\* type of the matched frame, it returns MT_ERROR (only with the deadline
\* expired), or an exception thrown by a port call (DeviceTimeout when a
\* blocking call ran out of time) leaves it.
C9_ThreeOutcomes ==
  WaitDone =>
    \/ /\ result.kind = "return"
       /\ result.val \in {MT_ACK, MT_NACK}
       /\ result.val = wt.header.type
    \/ /\ result = Ret(MT_ERROR)
       /\ HasExpired(wt.timeout, now)
    \/ /\ result.kind = "throw"
       /\ result.exc \in {"DeviceTimeout", "PortError"}
       /\ result.exc = "DeviceTimeout" => HasExpired(wt.timeout, now)

\* MT_ERROR returned after a frame was rejected and the deadline passed
C9_Witness ==
  /\ WaitDone
  /\ result = Ret(MT_ERROR)
  /\ arg.timeout > 0
  /\ rx = <<>>
  /\ arg.stream # <<>>

\* C10: at the top of the loop with time left, the step either finds a
\* START_FRAME and enters the header decode, or ends the whole operation with
\* the exception of the port call: DeviceTimeout at the deadline when no
\* START_FRAME came in time.  Nothing is attempted after that.
C10_StartTimeoutEndsWait ==
  [][(op = "WaitForACKOrNACK" /\ pc = "WaitForACKOrNACK"
        /\ ~HasExpired(wt.timeout, now))
       => \/ pc' = "ReceiveEscaped" /\ result' = NoResult
          \/ /\ pc' = "done"
             /\ result'.kind = "throw"
             /\ (Find(rx, 1, Len(rx) + 1, START_FRAME) > Len(rx)
                   => result' \in {Throw("DeviceTimeout"), Throw("PortError")})
             /\ (result' = Throw("DeviceTimeout") => now' = wt.timeout)]_vars

C10_Witness ==
  /\ WaitDone
  /\ result = Throw("DeviceTimeout")
  /\ arg.stream = Reply[arg.seq].BadLength
  /\ Find(rx, 1, Len(rx) + 1, START_FRAME) > Len(rx)
  /\ Len(rx) < 3

\* WaitForACKOrNACK is inside ReceiveFrameHeader
InHeaderDecode ==
  /\ op = "WaitForACKOrNACK"
  /\ pc = "ReceiveEscaped"
  /\ rcv.ret = "ReceiveFrameHeader"

\* ReceiveFrameHeader has returned false to WaitForACKOrNACK
HeaderDecodeFailed ==
  /\ op = "WaitForACKOrNACK"
  /\ pc = "ReceiveFrameHeader"
  /\ ~rcv.ok

\* C11 as stated: no failure of the header decode, invalid escape sequence
\* or timeout, ends the operation; the loop goes back to the wait for
\* START_FRAME (runs with an I/O error set aside).
C11_NoHeaderFailureAborts ==
  /\ [][HeaderDecodeFailed => (pc' = "WaitForACKOrNACK" /\ result' = NoResult)]_vars
  /\ [][InHeaderDecode =>
          (pc' \in {"ReceiveEscaped", "ReceiveFrameHeader"} \/ result'.exc = "PortError")]_vars

\* C11 amended: a header decode that fails by an invalid escape sequence
\* aborts this attempt only: the loop is back at the wait for START_FRAME
\* with nothing returned and no byte read.  A header decode that runs out of
\* time ends the whole operation: DeviceTimeout leaves WaitForACKOrNACK, at
\* the deadline.
C11_HeaderDecodeFailure ==
  /\ [][HeaderDecodeFailed =>
          (pc' = "WaitForACKOrNACK" /\ result' = NoResult /\ rx' = rx /\ now' = now)]_vars
  /\ [][InHeaderDecode =>
          \/ pc' \in {"ReceiveEscaped", "ReceiveFrameHeader"} /\ result' = NoResult
          \/ /\ pc' = "done"
             /\ result' \in {Throw("DeviceTimeout"), Throw("PortError")}
             /\ result' = Throw("DeviceTimeout") =>
                  (now' = wt.timeout /\ rcv.timeout = wt.timeout)]_vars

\* after a header with an invalid escape sequence the ACK is still matched
C11_Witness ==
  /\ WaitDone
  /\ result = Ret(MT_ACK)
  /\ arg.stream = Reply[arg.seq].BadEscape \o Reply[arg.seq].Ack
  /\ rx = <<>>

\* the raw bytes hold, at a position where an escape pair starts, ESCAPE
\* followed by a byte that is neither ESCAPE_START nor ESCAPE_ESCAPE
InvalidEscapeIn(raw) == Unescape(raw, 1, <<>>).st = "null"

\* C12: ReceiveEscaped returns false exactly when the bytes it took from the
\* port hold an invalid escape sequence, and it has returned as soon as they
\* do: in no state has it taken such a pair from the port and is still
\* decoding.  The destination holds what was decoded before the pair.
C12_InvalidEscapeFails ==
  op = "ReceiveEscaped" =>
    /\ InvalidEscapeIn(Consumed) => (pc = "done" /\ result = Ret(0))
    /\ (pc = "done" /\ result = Ret(0)) =>
         (InvalidEscapeIn(Consumed) /\ rcv.dest = Unescape(Consumed, 1, <<>>).p)

\* false after ESCAPE, 0 with the byte behind the pair left on the port
C12_Witness ==
  /\ op = "ReceiveEscaped"
  /\ pc = "done"
  /\ result = Ret(0)
  /\ arg.stream = <<ESCAPE, 0, 0>>
  /\ arg.length = Len(arg.stream)
  /\ rcv.dest = <<>>
  /\ rx = <<0>>

PingDone == op = "BinaryPing" /\ pc = "done"

\* the zero-payload PING header for each counter value, tabulated
PingHeader == [s \in SequenceNumbers |-> PrepareFrameHeader(s, MT_PING, <<>>)]

\* C13: BinaryPing builds the zero-payload PING header for the counter's
\* value and writes that frame and nothing else; it ends by returning true
\* or false (an I/O error apart), never by DeviceTimeout; it returns true
\* only for, and at the payload check exactly for, a valid ACK whose payload
\* starts with the header's sequence number, no later than the deadline.
C13_BinaryPing ==
  /\ [](op = "BinaryPing" =>
          /\ ping.header = PingHeader[arg.seq]
          /\ ping.header.length = HeaderSize
          /\ IsPrefix(tx, WireFrame(ping.header, <<>>))
          /\ pc = "done" =>
               /\ result \in {Ret(0), Ret(1), Throw("PortError")}
               /\ result = Ret(1) =>
                    /\ tx = WireFrame(ping.header, <<>>)
                    /\ wt.seq = ping.header.sequence_number
                    /\ wt.header.type = MT_ACK
                    /\ ValidReply(wt.header, wt.data, ping.header.sequence_number)
                    /\ now <= arg.start + arg.timeout)
  /\ [][(op = "BinaryPing" /\ pc = "ReceivePayload") =>
          ((result' = Ret(1)) <=>
             (rcv.ok /\ wt.header.type = MT_ACK
                /\ ValidReply(wt.header, rcv.dest, ping.header.sequence_number)))]_vars
  /\ [][(op = "BinaryPing" /\ result'.kind = "return" /\ pc \notin {"done", "ReceivePayload"}) =>
          result' = Ret(0)]_vars

\* true at the deadline, after an ACK for another number was skipped
C13_Witness ==
  /\ PingDone
  /\ result = Ret(1)
  /\ arg.stream = Reply[arg.seq].OtherAck \o Reply[arg.seq].Ack
  /\ now = arg.start + arg.timeout

\* C14: WaitForACK(s), as BinaryPing calls it with the sequence number s of
\* its header: on the stream of one valid ACK carrying s it returns true
\* once the frame is taken; on ACKs carrying s + 1 it never returns true; on
\* a valid NACK carrying s followed by an ACK carrying s it returns false at
\* the NACK, with the ACK left whole on the port.
C14_WaitForACK ==
  op = "BinaryPing" =>
    LET R == Reply[arg.seq]
    IN /\ arg.stream = R.Ack =>
            ((pc = "done" /\ rx = <<>>) => result \in {Ret(1), Throw("PortError")})
       /\ arg.stream \in {R.OtherAck, R.OtherAck \o R.OtherAck} => result # Ret(1)
       /\ arg.stream = R.Nack \o R.Ack =>
            /\ result # Ret(1)
            /\ IsSuffix(R.Ack, rx)
            /\ (pc = "done" /\ result.kind = "return" /\ now < arg.start + arg.timeout) =>
                 (result = Ret(0) /\ rx = R.Ack /\ wt.header.type = MT_NACK)

\* false at the NACK, before the deadline, the ACK behind it unread
C14_Witness ==
  /\ PingDone
  /\ result = Ret(0)
  /\ arg.stream = Reply[arg.seq].Nack \o Reply[arg.seq].Ack
  /\ rx = Reply[arg.seq].Ack
  /\ wt.header.type = MT_NACK
  /\ now < arg.start + arg.timeout

PingWaits ==
  /\ op = "BinaryPing"
  /\ pc \in {"WaitForACK", "WaitForACKOrNACK", "ReceiveEscaped", "ReceiveFrameHeader",
             "ReceivePayload"}

\* C16: what BinaryPing or BinaryReset has written is at every moment a
\* prefix of one frame: the raw START_FRAME first, then the stuffed header
\* bytes, with no other START_FRAME; from the moment the header is sent and
\* through every rejected reply it is exactly that one frame.
C16_OneFrameInOrder ==
  op \in {"BinaryPing", "BinaryReset"} =>
    /\ tx # <<>> =>
         /\ tx[1] = START_FRAME
         /\ IsPrefix(SubSeq(tx, 2, Len(tx)), Stuffed(HeaderBytes(ping.header)))
    /\ Cardinality({i \in 1..Len(tx) : tx[i] = START_FRAME}) <= 1
    /\ (PingWaits \/ (pc = "done" /\ wt # NoWt)) =>
         tx = <<START_FRAME>> \o Stuffed(HeaderBytes(ping.header))

\* two replies were rejected and the one frame is all that was sent
C16_Witness ==
  /\ PingWaits
  /\ pc = "WaitForACKOrNACK"
  /\ arg.stream = Reply[arg.seq].OtherAck \o Reply[arg.seq].WrongType
  /\ rx = <<>>
  /\ arg.seq = START_FRAME
  /\ tx = <<START_FRAME>> \o Stuffed(HeaderBytes(ping.header))
  /\ Len(tx) > HeaderSize + 1

\* C17: the k-th header built on a connection carries the counter's value
\* from before its call; that value is one more, modulo 2^16, than the one
\* before the previous call; and the counter now is one more, modulo 2^16,
\* than the value the last header carries: the k-th header carries
\* (s0 + k - 1) mod 2^16.
C17_SequenceCounter ==
  /\ \A k \in 1..Len(built) :
       /\ built[k].header.sequence_number = built[k].before
       /\ built[k].before = (built[1].before + k - 1) % 65536
  /\ built # <<>> =>
       sequence_number = (built[1].before + Len(built)) % 65536

\* the third header built carries 0: the counter has wrapped
C17_Witness ==
  /\ Len(built) = MaxOps
  /\ built[1].header.sequence_number = 65534
  /\ built[2].header.sequence_number = 65535
  /\ built[MaxOps].header.sequence_number = 0
  /\ sequence_number = 1
  /\ pc = "done"

\* C18: every header PrepareFrameHeader has built for the counter value seq,
\* a message type and a payload of n bytes has length 8 + n, version 0,
\* sequence_number seq, that type, and as crc the CRC over itself and the
\* payload.
C18_PrepareFrameHeader ==
  \A k \in 1..Len(built) :
    LET header == built[k].header
        data == built[k].data
    IN /\ header.length = HeaderSize + Len(data)
       /\ header.version = 0
       /\ header.sequence_number = built[k].before
       /\ header.type \in MessageTypes
       /\ (k = Len(built) /\ op = "SendFrame") => header = ping.header
       /\ header.crc = CalculateCRC(header, data)
       /\ header.crc = UpdateCRC(SubSeq(HeaderBytes(header), 1, HeaderSize - 2)
                                   \o <<0, 0>> \o data, 0)

\* a header built for a payload of two reserved bytes
C18_Witness ==
  /\ Len(built) = 1
  /\ built[1].data = <<START_FRAME, ESCAPE>>
  /\ built[1].header.length = HeaderSize + 2
  /\ built[1].header.type = MT_ACK
  /\ built[1].header.sequence_number = 65535
  /\ op = "SendFrame"
  /\ pc = "SendPayload"

\* the peer is receiving the frame built and sent
PeerDecodes == op = "WaitForACKOrNACK" /\ Len(built) = 1

\* C19: the peer that waited for START_FRAME and decoded 8 bytes holds the
\* header that was built, field by field; the CRC recomputed over that header
\* and the payload is the crc it carries; and the payload decoded is the
\* payload sent.
C19_FrameRoundTrip ==
  PeerDecodes =>
    /\ (pc = "ReceiveEscaped" /\ rcv.ret = "ReceiveFrameHeader") =>
         IsPrefix(rcv.dest, HeaderBytes(built[1].header))
    /\ pc = "ReceiveFrameHeader" =>
         /\ rcv.ok
         /\ HeaderOf(rcv.dest) = built[1].header
         /\ CalculateCRC(HeaderOf(rcv.dest), built[1].data) = HeaderOf(rcv.dest).crc
    /\ pc = "ReceivePayload" =>
         /\ rcv.ok
         /\ wt.header = built[1].header
         /\ rcv.dest = built[1].data
         /\ CalculateCRC(wt.header, rcv.dest) = wt.header.crc

\* header and payload received, both holding reserved bytes
C19_Witness ==
  /\ PeerDecodes
  /\ pc = "ReceivePayload"
  /\ rcv.ok
  /\ rcv.dest = <<ESCAPE, START_FRAME>>
  /\ wt.header = built[1].header
  /\ wt.header.sequence_number = START_FRAME
  /\ rx = <<>>

\* a header was decoded whose length field is at most the header size
UndersizedHeader ==
  /\ pc = "ReceiveFrameHeader"
  /\ rcv.ok
  /\ HeaderOf(rcv.dest).length <= HeaderSize

\* C20: after a header whose declared length is at most 8 the next step is
\* back at the top of the loop: no byte was read, no time was spent, the
\* payload buffer has the capacity and the content it had, nothing is
\* returned.
C20_UndersizedRejected ==
  [][UndersizedHeader =>
       /\ pc' = "WaitForACKOrNACK"
       /\ rx' = rx
       /\ now' = now
       /\ wt'.capacity = wt.capacity
       /\ wt'.data = wt.data
       /\ result' = NoResult]_vars

\* a frame declaring exactly 8 bytes was dropped; the ACK behind it is unread
\* and the payload buffer was never grown
C20_Witness ==
  /\ op = "WaitForACKOrNACK"
  /\ pc = "WaitForACKOrNACK"
  /\ arg.stream = Reply[arg.seq].NoPayload \o Reply[arg.seq].Ack
  /\ rx = Reply[arg.seq].Ack
  /\ wt.header.length = HeaderSize
  /\ wt.capacity = 0
  /\ wt.data = <<>>

\* the peer is in, or back from, the payload decode
InPayloadStage ==
  \/ pc = "ReceivePayload"
  \/ pc = "ReceiveEscaped" /\ rcv.ret = "ReceivePayload"

\* C21 as stated: a decoded header whose declared length equals the header
\* size passes the length check: the step after it is not back at the wait
\* for START_FRAME.
C21_ZeroPayloadPasses ==
  [][(PeerDecodes /\ pc = "ReceiveFrameHeader" /\ rcv.ok
        /\ HeaderOf(rcv.dest).length = HeaderSize)
       => pc' # "WaitForACKOrNACK"]_vars

\* C21 amended: the receive loop rejects a frame whose declared length equals
\* the header size at the length check, as it does a smaller one: a
\* zero-payload frame, built by PrepareFrameHeader with a CRC that verifies,
\* never reaches the payload decode or the CRC verification, the payload
\* buffer is never grown for it, and it is never the frame returned; the
\* payload stage is entered only for a declared length above the header size.
C21_ZeroPayloadRejected ==
  PeerDecodes =>
    /\ InPayloadStage =>
         /\ built[1].data # <<>>
         /\ wt.header.length > HeaderSize
         /\ rcv.length = wt.header.length - HeaderSize
    /\ built[1].data = <<>> =>
         /\ wt.header \in {NoHeader, built[1].header}
         /\ wt.capacity = 0
         /\ wt.data = <<>>
         /\ (pc = "done" /\ result.kind = "return") => result = Ret(MT_ERROR)

\* a zero-payload ACK whose CRC verifies was dropped at the length check,
\* with time left
C21_Witness ==
  /\ PeerDecodes
  /\ built[1].data = <<>>
  /\ built[1].header.type = MT_ACK
  /\ pc = "WaitForACKOrNACK"
  /\ wt.header = built[1].header
  /\ wt.header.length = HeaderSize
  /\ wt.header.crc = CalculateCRC(wt.header, <<>>)
  /\ rx = <<>>
  /\ ~HasExpired(wt.timeout, now)

DecodingTail ==
  /\ flip.tail = WireFrame(BuiltAck(arg.seq), LE16(arg.seq))
  /\ Len(rx) < Len(flip.tail)
  /\ wt.header = BuiltAck(arg.seq)

\* WaitForACKOrNACK returned the type of a frame it matched
Matched == WaitDone /\ result.kind = "return" /\ result.val # MT_ERROR

\* the length that the flipped frame declares
FlippedLength == FromLE16(SubSeq(FlipBit(FrameBytes(arg.seq), flip.bit), 1, 2))

\* C23 as stated: whichever bit of the header or payload of the built ACK is
\* flipped, the CRC verification of the received frame fails, and the frame
\* is not the one WaitForACKOrNACK returns.
C23_AnyFlipFailsCRC ==
  (flip.bit # 0 /\ op = "WaitForACKOrNACK") =>
    /\ (pc = "ReceivePayload" /\ rcv.ok /\ ~DecodingTail) =>
         wt.header.crc # CalculateCRC(wt.header, rcv.dest)
    /\ Matched => DecodingTail

\* C23 amended: a flipped bit outside the length field leaves the frame's
\* extent alone: exactly its bytes are decoded, the CRC verification fails and
\* the frame is rejected, whatever follows it.  A flipped bit of the length
\* field is not caught by the CRC verification as such: a declared length up
\* to the header size is rejected by the length check, before any CRC is
\* computed; a raised one makes the receiver take the bytes behind the frame
\* as payload, so the frame alone is never matched, but what the CRC
\* verification says depends on the bytes that follow.
C23_SingleBitFlip ==
  (flip.bit # 0 /\ op = "WaitForACKOrNACK") =>
    /\ flip.bit \notin LengthBits =>
         /\ (pc = "ReceivePayload" /\ rcv.ok /\ ~DecodingTail) =>
              /\ rx = flip.tail
              /\ wt.header.crc # CalculateCRC(wt.header, rcv.dest)
         /\ Matched => DecodingTail
    /\ flip.bit \in LengthBits =>
         /\ (Matched /\ flip.tail = <<>>) => FALSE
         /\ FlippedLength <= HeaderSize =>
              /\ InPayloadStage => DecodingTail
              /\ Matched => DecodingTail
         /\ (FlippedLength > HeaderSize /\ InPayloadStage /\ ~DecodingTail) =>
              /\ rcv.length = FlippedLength - HeaderSize
              /\ rcv.length > Len(LE16(arg.seq))

\* a bit of the payload was flipped: the frame was rejected and the intact
\* ACK behind it matched
C23_Witness ==
  /\ Matched
  /\ result = Ret(MT_ACK)
  /\ flip.bit > 8 * HeaderSize
  /\ DecodingTail
  /\ rx = <<>>

\* C24: when the last raw byte a decode pass obtained is ESCAPE, the pass
\* reads exactly one more byte, by a blocking read given at most the time
\* left, and decodes the pair with it.  So the bytes decoded are always those
\* of the raw bytes consumed, pair by pair, and the raw bytes consumed end in
\* a lone ESCAPE only where that read failed and its exception has ended the
\* operation: the ESCAPE is never the end of the data, dropped, or handed out
\* as a data byte.
C24_TrailingEscape ==
  /\ [](op = "ReceiveEscaped" =>
          LET u == Unescape(Consumed, 1, <<>>)
          IN /\ rcv.dest = u.p
             /\ u.st = "more" => (pc = "done" /\ result.kind = "throw")
             /\ u.st = "null" => (pc = "done" /\ result.kind # "none" /\ result # Ret(1)))
  /\ [][(pc = "ReceiveEscaped" /\ op = "ReceiveEscaped") =>
          LET n == rcv.length - Len(rcv.dest)
              failed == result'.kind = "throw"
              nbytes == Len(rx) - Len(rx') - (IF Len(calls') = 2 /\ ~failed THEN 1 ELSE 0)
          IN /\ Len(calls') \in {1, 2}
             /\ \A i \in 1..Len(calls') : calls'[i] <= 0
             /\ Len(calls') = 2 =>
                  /\ nbytes \in 1..n
                  /\ rx[nbytes] = ESCAPE
                  /\ Unescape(SubSeq(rx, 1, nbytes), 1, <<>>).st = "more"
             /\ (Len(calls') = 1 /\ ~failed) =>
                  /\ nbytes \in 1..n
                  /\ Unescape(SubSeq(rx, 1, nbytes), 1, <<>>).st # "more"]_vars

\* a pass got ESCAPE as its last raw byte, read ESCAPE_START behind it and
\* completed the two bytes asked for
C24_Witness ==
  /\ op = "ReceiveEscaped"
  /\ pc = "done"
  /\ result = Ret(1)
  /\ arg.length = 2
  /\ arg.stream = <<0, ESCAPE, ESCAPE_START>>
  /\ rx = <<>>
  /\ rcv.dest = <<0, START_FRAME>>
  /\ Len(calls) = 2

\* C25: ReceiveEscaped(buffer, length) runs decode passes while the buffer is
\* not full, each into the part of it that is still unfilled: a pass never
\* brings the decoded bytes beyond length, it leaves the bytes decoded by
\* earlier passes as they are and only adds behind them, and true is returned
\* exactly with length bytes decoded.
C25_FillsExactly ==
  /\ [](op = "ReceiveEscaped" =>
          /\ rcv.length = arg.length
          /\ Len(rcv.dest) <= rcv.length
          /\ pc = "ReceiveEscaped" => Len(rcv.dest) < rcv.length
          /\ result = Ret(1) => (pc = "done" /\ Len(rcv.dest) = rcv.length)
          /\ (pc = "done" /\ Len(rcv.dest) = rcv.length /\ result.kind = "return") =>
               result = Ret(1))
  /\ [][(pc = "ReceiveEscaped" /\ op = "ReceiveEscaped") =>
          /\ IsPrefix(rcv.dest, rcv'.dest)
          /\ Len(rcv'.dest) - Len(rcv.dest) <= Len(rx) - Len(rx')
          /\ Len(rx) - Len(rx') <= rcv.length - Len(rcv.dest) + 1]_vars

\* two bytes asked for, the first escaped: the first pass can take no more
\* than the pair, a second pass decodes the byte behind it
C25_Witness ==
  /\ op = "ReceiveEscaped"
  /\ pc = "done"
  /\ result = Ret(1)
  /\ arg.length = 2
  /\ arg.stream = <<ESCAPE, ESCAPE_START, 0>>
  /\ rx = <<>>
  /\ rcv.dest = <<START_FRAME, 0>>

\* C26: at every step of the in-place unescaping the write cursor is not
\* ahead of the read cursor, so the raw bytes from the read cursor on are
\* still the ones that were read; the end position returned is at most the
\* number of bytes read behind dest, and the bytes before it are the decoding
\* of the raw bytes taken from the port.
C26_WriteBehindRead ==
  (op = "ReceiveSomeUnescape" /\ un.st \notin {"none", "read"}) =>
    /\ 1 <= un.p
    /\ un.p <= un.src
    /\ un.src <= un.nbytes + 1
    /\ un.nbytes \in 1..un.n
    /\ Len(un.dest) = un.nbytes
    /\ SubSeq(un.dest, un.src, un.nbytes) = SubSeq(arg.stream, un.src, un.nbytes)
    /\ un.st = "end" =>
         /\ result = Ret(un.p - 1)
         /\ un.p - 1 <= un.nbytes
         /\ SubSeq(un.dest, 1, un.p - 1) = Unescape(Consumed, 1, <<>>).p
         /\ Unescape(Consumed, 1, <<>>).st = "end"
    /\ un.st = "null" => Unescape(Consumed, 1, <<>>).st = "null"

\* a pair and a harmless byte unescaped in place: two bytes are returned and
\* the third byte of the span still holds the raw byte
C26_Witness ==
  /\ op = "ReceiveSomeUnescape"
  /\ pc = "done"
  /\ un.st = "end"
  /\ arg.stream = <<ESCAPE, ESCAPE_START, 0>>
  /\ un.nbytes = 3
  /\ un.dest = <<START_FRAME, 0, 0>>
  /\ result = Ret(2)

\* C27: the asserted preconditions hold at every call made in a run of
\* BinaryPing, BinaryReset or WaitForACKOrNACK, whatever is received:
\* SendEscaped is entered with the 8 header bytes, ReceiveEscaped with the 8
\* bytes of a header or, after the length check, with a payload length above
\* 0 and a payload buffer that has been allocated, and PrepareFrameHeader
\* got a null payload exactly with the payload length 0.
C27_AssertionsHold ==
  /\ pc = "SendEscaped" =>
       /\ Len(snd.buffer) > 0
       /\ op \in {"BinaryPing", "BinaryReset"} => Len(snd.buffer) = HeaderSize
  /\ pc = "ReceiveEscaped" =>
       /\ rcv.length > 0
       /\ rcv.ret = "ReceiveFrameHeader" => rcv.length = HeaderSize
       /\ rcv.ret = "ReceivePayload" =>
            /\ wt.header.length > HeaderSize
            /\ rcv.length = wt.header.length - HeaderSize
            /\ wt.capacity >= rcv.length
  /\ \A k \in 1..Len(built) :
       /\ built[k].null <=> Len(built[k].data) = 0
       /\ built[k].header.length = HeaderSize + Len(built[k].data)

\* BinaryPing built its header without a payload, sent it, and the payload
\* of the ACK was decoded into a buffer grown to its two bytes
C27_Witness ==
  /\ PingDone
  /\ result = Ret(1)
  /\ Len(built) = 1
  /\ built[1].null
  /\ Len(snd.buffer) = HeaderSize
  /\ wt.capacity = 2
  /\ rcv.length = 2
  /\ rcv.ok

\* C28: one WaitForACKOrNACK call has one payload buffer for all its
\* attempts: when a payload decode is entered the buffer has been grown to
\* at least the declared payload length (length - sizeof(header)), and from
\* one step to the next its capacity never goes down; it grows only where a
\* header declares a longer payload than any before it.
C28_PayloadBuffer ==
  /\ []((op \in {"WaitForACKOrNACK", "BinaryPing"} /\ InPayloadStage) =>
          /\ rcv.length = wt.header.length - HeaderSize
          /\ wt.capacity >= rcv.length)
  /\ [][(op \in {"WaitForACKOrNACK", "BinaryPing"} /\ pc # "done") =>
          /\ wt'.capacity >= wt.capacity
          /\ wt'.capacity # wt.capacity =>
               /\ pc = "ReceiveFrameHeader"
               /\ pc' = "ReceiveEscaped"
               /\ wt'.capacity = rcv'.length]_vars

\* a second attempt decodes a one-byte payload into the buffer that the
\* first attempt grew to two bytes
C28_Witness ==
  /\ op = "WaitForACKOrNACK"
  /\ arg.stream = Reply[arg.seq].OtherAck \o Reply[arg.seq].ShortAck
  /\ pc = "ReceivePayload"
  /\ rx = <<>>
  /\ rcv.length = 1
  /\ wt.capacity = 2

\* ReceiveEscaped reads what a completed SendEscaped(arg.buffer) wrote
ReadsSent ==
  /\ op = "ReceiveEscaped"
  /\ arg.buffer # <<>>
  /\ arg.stream = Stuffed(arg.buffer)

\* the encoded bytes of the first arg.length bytes of what was sent
EncodedAskedFor ==
  Stuffed(SubSeq(arg.buffer, 1, Min(arg.length, Len(arg.buffer))))

\* C29: on the bytes that SendEscaped wrote, ReceiveEscaped(length) takes from
\* the port nothing but encoded bytes of the first length logical bytes, and
\* when it returns true it has taken exactly those: what follows them is
\* still unread.  On any inbound bytes, the last byte taken before true is
\* returned is the one that completed the last logical byte.  A pass takes
\* at most as many raw bytes as logical bytes are missing, and one more only
\* behind an ESCAPE that was the last of them.
C29_ConsumesExactly ==
  /\ [](ReadsSent =>
          /\ IsPrefix(Consumed, EncodedAskedFor)
          /\ result # Ret(0)
          /\ result = Ret(1) =>
               /\ Consumed = EncodedAskedFor
               /\ rcv.dest = SubSeq(arg.buffer, 1, arg.length)
               /\ rx = SubSeq(arg.stream, Len(EncodedAskedFor) + 1, Len(arg.stream)))
  /\ []((op = "ReceiveEscaped" /\ result = Ret(1)) =>
          /\ Len(Unescape(Consumed, 1, <<>>).p) = arg.length
          /\ LET before == Unescape(SubSeq(Consumed, 1, Len(Consumed) - 1), 1, <<>>)
             IN before.st = "more" \/ Len(before.p) < arg.length)
  /\ [][(pc = "ReceiveEscaped" /\ op = "ReceiveEscaped") =>
          LET missing == rcv.length - Len(rcv.dest)
              taken == Len(rx) - Len(rx')
          IN /\ taken <= missing + 1
             /\ taken = missing + 1 => (Len(calls') = 2 /\ rx[missing] = ESCAPE)]_vars

\* two of the three bytes sent were asked for: both pairs were taken and the
\* byte behind them is unread
C29_Witness ==
  /\ ReadsSent
  /\ pc = "done"
  /\ result = Ret(1)
  /\ arg.buffer = <<ESCAPE, START_FRAME, 0>>
  /\ arg.length = 2
  /\ rx = <<0>>
  /\ rcv.dest = <<ESCAPE, START_FRAME>>

\* C30: a decode pass gets at least one byte from the port or is left by an
\* exception; unless it fails (exception or unknown escape) it adds at least
\* one byte to the decoded bytes.  While the loop runs between 1 and length
\* bytes are missing, and every pass after which it still runs has made that
\* number smaller: ReceiveEscaped(length) ends within length passes, with
\* true, false or the exception of a port call.
C30_PassesAdvance ==
  /\ [](op = "ReceiveEscaped" =>
          /\ pc \in {"ReceiveEscaped", "done"}
          /\ pc = "ReceiveEscaped" =>
               (result = NoResult /\ rcv.length - Len(rcv.dest) \in 1..arg.length)
          /\ pc = "done" =>
               result \in {Ret(1), Ret(0), Throw("DeviceTimeout"), Throw("PortError")})
  /\ [][(pc = "ReceiveEscaped" /\ op = "ReceiveEscaped") =>
          /\ (result'.kind = "throw" \/ Len(rx') < Len(rx))
          /\ (result'.kind # "throw" /\ result' # Ret(0)) =>
               Len(rcv'.dest) >= Len(rcv.dest) + 1
          /\ pc' = "ReceiveEscaped" =>
               rcv'.length - Len(rcv'.dest) < rcv.length - Len(rcv.dest)]_vars

\* three escaped bytes decoded: the first pass can take at most two of the
\* pairs, the last pass took an ESCAPE and read the byte behind it
C30_Witness ==
  /\ op = "ReceiveEscaped"
  /\ pc = "done"
  /\ result = Ret(1)
  /\ arg.buffer = <<ESCAPE, ESCAPE, ESCAPE>>
  /\ arg.length = Len(arg.buffer)
  /\ rx = <<>>
  /\ Len(calls) = 2

\* the wait is decoding, or has decoded, a header, and has not got a whole
\* header before
FirstHeaderDecode ==
  /\ op = "WaitForACKOrNACK"
  /\ wt.header = NoHeader
  /\ pc \in {"ReceiveEscaped", "ReceiveFrameHeader"}

\* C31: a START_FRAME met while a header or payload is decoded is a data
\* byte like any other: until an unknown escape ends the attempt, the header
\* bytes decoded are the decoding of all raw bytes taken behind the
\* START_FRAME that began it, a START_FRAME among them included.  The next
\* START_FRAME is looked for only when the attempt has ended: a valid ACK
\* that begins inside the declared length of a frame cut short before it has
\* lost its START_FRAME by then and is never matched.
C31_NoResyncInsideFrame ==
  /\ (FirstHeaderDecode /\ arg.stream # <<>> /\ arg.stream[1] = START_FRAME
         /\ Unescape(Tail(Consumed), 1, <<>>).st # "null") =>
       rcv.dest = Unescape(Tail(Consumed), 1, <<>>).p
  /\ \A kind \in {"Cut", "LongLength"} :
       (op \in {"WaitForACKOrNACK", "BinaryPing"}
          /\ arg.stream = Reply[arg.seq][kind] \o Reply[arg.seq].Ack) =>
         /\ result.kind = "return" => result.val = MT_ERROR
         /\ (pc = "WaitForACKOrNACK" /\ wt.header # NoHeader) =>
              Len(rx) < Len(Reply[arg.seq].Ack)

\* the header of a frame cut short was completed with the START_FRAME of the
\* ACK behind it; nothing was found behind the rejected frame and the wait
\* ran out of time
C31_Witness ==
  /\ WaitDone
  /\ arg.stream = Reply[arg.seq].Cut \o Reply[arg.seq].Ack
  /\ result = Throw("DeviceTimeout")
  /\ rx = <<>>
  /\ wt.header.length > HeaderSize
  /\ wt.header.crc \div 256 = START_FRAME

\* C32: when WaitForACKOrNACK returns MT_ACK or MT_NACK, length is the
\* payload length of the frame it matched (its declared length less the
\* header size) and data holds that frame's unescaped payload, length bytes
\* that begin with the awaited sequence number and have the CRC of its
\* header: behind a rejected frame, the payload of the second one.
C32_OutParameters ==
  Matched =>
    /\ result.val = wt.header.type
    /\ wt.length = wt.header.length - HeaderSize
    /\ Len(wt.data) = wt.length
    /\ wt.length <= wt.capacity
    /\ wt.data = rcv.dest
    /\ SubSeq(wt.data, 1, 2) = LE16(arg.seq)
    /\ wt.header.crc = CalculateCRC(wt.header, wt.data)
    /\ \A kind \in {"OtherAck", "WrongType", "ShortAck", "BadCRC"} :
         /\ arg.stream = Reply[arg.seq][kind] \o Reply[arg.seq].LongAck =>
              (wt.length = 3 /\ wt.data = LE16(arg.seq) \o <<0>>)
         /\ arg.stream = Reply[arg.seq][kind] \o Reply[arg.seq].Nack =>
              (wt.length = 2 /\ wt.data = LE16(arg.seq))

\* the three payload bytes of the ACK behind a rejected ACK with two
C32_Witness ==
  /\ Matched
  /\ result = Ret(MT_ACK)
  /\ arg.stream = Reply[arg.seq].OtherAck \o Reply[arg.seq].LongAck
  /\ wt.length = 3
  /\ wt.data = LE16(arg.seq) \o <<0>>
  /\ rx = <<>>

\* C33: WaitForACKOrNACK called with the timeout zero finds its clock expired
\* at the first test of the loop condition and returns MT_ERROR: no port call
\* is made, no time passes, and every inbound byte is still unread.  The same
\* holds for the wait of a BinaryPing that was given the timeout zero.
C33_ZeroTimeout ==
  /\ (op = "WaitForACKOrNACK" /\ arg.timeout = 0) =>
       /\ pc \in {"WaitForACKOrNACK", "done"}
       /\ rx = arg.stream
       /\ now = arg.start
       /\ tx = <<>>
       /\ calls = <<>>
       /\ wt.header = NoHeader
       /\ rcv = NoRcv
       /\ pc = "done" => result = Ret(MT_ERROR)
  /\ (op = "BinaryPing" /\ arg.timeout = 0) =>
       /\ rx = arg.stream
       /\ pc \notin {"ReceiveEscaped", "ReceiveFrameHeader", "ReceivePayload"}
       /\ result # Ret(1)

\* MT_ERROR with a whole valid ACK pending
C33_Witness ==
  /\ WaitDone
  /\ arg.timeout = 0
  /\ result = Ret(MT_ERROR)
  /\ arg.stream = Reply[arg.seq].Ack
  /\ rx = Reply[arg.seq].Ack

\* C34: CheckEnabled returns false while `until` is the zero time point,
\* true while it is time_point::max(), and otherwise true exactly while
\* now < until; a call at or after `until` resets `until` to the zero time
\* point, and with `until` zero a call returns false and leaves it zero.
C34_CheckEnabled ==
  [][(dp'.n > dp.n) =>
       /\ dp.until = TimePointZero => (~dp'.enabled /\ dp'.until = TimePointZero)
       /\ dp.until = TimePointMax => (dp'.enabled /\ dp'.until = TimePointMax)
       /\ dp.until \notin {TimePointZero, TimePointMax} =>
            /\ dp'.enabled = (now < dp.until)
            /\ dp'.until = IF now >= dp.until THEN TimePointZero ELSE dp.until]_vars

\* a call made exactly at `until`: it found dumping disabled, logged
\* nothing and reset `until`
C34_Witness ==
  /\ dp.before \notin {TimePointZero, TimePointMax}
  /\ dp.at = dp.before
  /\ dp.until = TimePointZero
  /\ ~dp.enabled
  /\ dp.log = <<>>
  /\ dp.n >= 2

\* what the wrapped port can do with the call c made at time t
Wrapped(c, w, r, t) ==
  IF c.method = "Write"
    THEN {[res |-> o.res, tx |-> o.tx, rx |-> r, now |-> o.now] : o \in PortWrite(w, t, c.arg)}
  ELSE IF c.method = "Read"
    THEN {[res |-> o.res, tx |-> w, rx |-> o.rx, now |-> o.now] : o \in PortRead(r, t, c.arg)}
  ELSE {[res |-> o.res, tx |-> w, rx |-> o.rx, now |-> o.now] :
          o \in PortWaitRead(r, t, c.arg)}

\* C35: a Write, Read or WaitRead on the DumpPort makes exactly one call on
\* the wrapped port, the same method with the same argument; the caller
\* gets what the wrapped port returned or threw; and the result, the bytes
\* that moved and the time that passed are an outcome of the wrapped port's
\* own call, whether dumping is enabled or not.
C35_Transparent ==
  [][(dp'.n > dp.n) =>
       /\ dp'.inner = <<dp'.call>>
       /\ dp'.ret = dp'.got
       /\ \E o \in Wrapped(dp'.call, tx, rx, now) :
            /\ dp'.ret = o.res
            /\ tx' = o.tx
            /\ rx' = o.rx
            /\ now' = o.now
       /\ (~dp'.enabled) => dp'.log = <<>>]_vars

\* dumping is enabled and the wrapped port wrote less than it was given:
\* the caller has that count, and it is the bytes written that are dumped
C35_Witness ==
  /\ dp.enabled
  /\ dp.call.method = "Write"
  /\ dp.ret.kind = "return"
  /\ dp.ret.val < Len(dp.call.arg)
  /\ dp.ret.val > 0
  /\ dp.log[Len(dp.log)] = <<"W ", SubSeq(dp.call.arg, 1, dp.ret.val)>>
  /\ dp.n >= 2

\* how many of the lines read so far ended as v
Verdicts(v) == Cardinality({i \in 1..Len(wp.verdicts) : wp.verdicts[i] = v})

\* what became of each line fits the line
VerdictsFit ==
  \A i \in 1..Len(wp.verdicts) :
    LET line == wp.file[i]
        v == wp.verdicts[i]
    IN /\ (v = "comment") = StartsWith(line.text, <<"*">>)
       /\ (v = "empty") = (line.text = <<>>)
       /\ v \in {"accepted", "range"} => line.parse = "TRUE"
       /\ (v = "parse") => line.parse = "FALSE"
       /\ (v = "fault") => (line.parse = "fault" /\ wp.HAVEEXCEPTIONS)
       /\ (v = "range") => (wp.isTerrainLoaded /\ ~line.inside)

\* C36 as stated: the reading ends only at the end of the file or when
\* append fails, and way_points has grown by exactly the number of
\* accepted lines.
C36_GrowsByAccepted ==
  /\ wp.st # "thrown"
  /\ wp.st = "returned" => wp.why \in {"ReadString", "append", "fSize"}
  /\ Len(wp.way_points) = wp.before + Verdicts("accepted")

\* C36: comment lines and empty lines add nothing; every other line
\* appends one entry, popped again when ParseWayPointString or
\* WaypointInTerrainRange gives false; the function returns only at the end
\* of the file or when append fails. A line on which parsing raises an
\* exception keeps its entry: with HAVEEXCEPTIONS the reading goes on with
\* the next line, without it the exception leaves the function. way_points
\* has grown by the accepted lines plus the lines that raised an exception.
C36_GrowsByKept ==
  /\ VerdictsFit
  /\ wp.st = "returned" =>
       \/ wp.why = "ReadString" /\ wp.nLineNumber = Len(wp.file)
                                /\ Len(wp.verdicts) = Len(wp.file)
       \/ wp.why = "append" /\ Len(wp.verdicts) = wp.nLineNumber - 1
       \/ wp.why = "fSize" /\ wp.file = <<>>
  /\ wp.st = "thrown" =>
       /\ ~wp.HAVEEXCEPTIONS
       /\ wp.file[wp.nLineNumber].parse = "fault"
       /\ Len(wp.way_points) = wp.before + Verdicts("accepted") + 1
  /\ wp.st \in {"loop", "returned"} =>
       Len(wp.way_points) = wp.before + Verdicts("accepted") + Verdicts("fault")

\* the end of a file is reached with one line accepted, one popped for
\* the terrain range and one whose exception left its entry in the list
C36_Witness ==
  /\ wp.st = "returned"
  /\ wp.why = "ReadString"
  /\ Verdicts("accepted") > 0
  /\ Verdicts("range") > 0
  /\ Verdicts("fault") > 0
  /\ Len(wp.way_points) = wp.before + Verdicts("accepted") + Verdicts("fault")

=============================================================================
